---------------------------- MODULE Spec2Model ----------------------------
(***************************************************************************)
(* Model of the dead-code-elimination instrumenter of DeadCodeProductions/ *)
(* dead (dce_instrumenter): the statement canonicalizer, the               *)
(* promote-to-static pass and the marker instrumenter, run one after the   *)
(* other by the driver over the main file of a translation unit.           *)
(*                                                                         *)
(* A file is a sequence of tokens.  A source location is a token index in  *)
(* the file it is spelled in.  Heads whose inner tokens are never the      *)
(* target of an edit are one token: "if" is `if (c)`, "for" is             *)
(* `for (i; c; s)`, "while" is `while (c)`, "switch" is `switch (v)`,      *)
(* "case" is `case N:`, "default" is `default:`, "fn" is `int foo(int a)`, *)
(* "main" is `int main()`.                                                 *)
(***************************************************************************)
EXTENDS Naturals, Sequences, FiniteSets, TLC

(***************************************************************************)
(* Tokens and the syntax tree the external parser supplies.                *)
(***************************************************************************)

\* The token at index i of text t; past the end the lexer yields eof.
Tok(t, i) == IF i >= 1 /\ i <= Len(t) THEN t[i] ELSE "<eof>"

\* "{" written directly, or a macro whose body is "{": "LB" is defined in
\* the included header (`#define LB {`), "LBC" on the command line
\* (`-DLBC={`).
IsLBrace(c) == c \in {"{", "LB", "LBC"}

\* The probe call expression DCEMarker<n>_() and its forward declaration.
MarkerCall(n) == "DCEMarker" \o ToString(n) \o "_()"

MarkerDecl(n) == "void DCEMarker" \o ToString(n) \o "_(void);"

IsMarkerCall(t, c) == \E n \in 0..Len(t) : c = MarkerCall(n)

IsMarkerDecl(t, c) == \E n \in 0..Len(t) : c = MarkerDecl(n)

\* A syntax-tree node: kind, first token (getBeginLoc), last token
\* (getEndLoc), the index of the token that follows the statement and its
\* terminating ';', and the children in source order.
Node(k, b, e, nx, kids) ==
    [k |-> k, b |-> b, e |-> e, nx |-> nx, kids |-> kids, ok |-> TRUE]

NoNode == [k |-> "error", b |-> 0, e |-> 0, nx |-> 0, kids |-> <<>>, ok |-> FALSE]

RECURSIVE ParseStmt(_, _)
RECURSIVE ParseStmts(_, _, _)

\* One statement starting at token i.
ParseStmt(t, i) ==
    LET c == Tok(t, i) IN
    CASE c = ";" -> Node("null", i, i, i + 1, <<>>)
      [] c = "a" ->
            IF Tok(t, i + 1) = "=" /\ Tok(t, i + 2) = "1" /\ Tok(t, i + 3) = ";"
            THEN Node("expr", i, i + 2, i + 4, <<>>) ELSE NoNode
      [] c = "return" ->
            IF Tok(t, i + 1) = "0" /\ Tok(t, i + 2) = ";"
            THEN Node("return", i, i + 1, i + 3, <<>>) ELSE NoNode
      [] c = "break" ->
            IF Tok(t, i + 1) = ";"
            THEN Node("break", i, i, i + 2, <<>>) ELSE NoNode
      [] IsMarkerCall(t, c) ->
            IF Tok(t, i + 1) = ";"
            THEN Node("call", i, i, i + 2, <<>>) ELSE NoNode
      [] IsLBrace(c) ->
            LET r == ParseStmts(t, i + 1, <<>>) IN
            IF r.ok THEN Node("compound", i, r.nx, r.nx + 1, r.kids) ELSE NoNode
      [] c = "if" ->
            LET th == ParseStmt(t, i + 1) IN
            IF ~th.ok THEN NoNode
            ELSE IF Tok(t, th.nx) = "else"
                 THEN LET el == ParseStmt(t, th.nx + 1) IN
                      IF el.ok THEN Node("if", i, el.e, el.nx, <<th, el>>) ELSE NoNode
                 ELSE Node("if", i, th.e, th.nx, <<th>>)
      [] c \in {"for", "while", "switch", "case", "default"} ->
            LET s == ParseStmt(t, i + 1) IN
            IF s.ok THEN Node(c, i, s.e, s.nx, <<s>>) ELSE NoNode
      [] c = "do" ->
            LET s == ParseStmt(t, i + 1) IN
            IF s.ok /\ Tok(t, s.nx) = "while" /\ Tok(t, s.nx + 1) = ";"
            THEN Node("do", i, s.nx, s.nx + 2, <<s>>) ELSE NoNode
      [] OTHER -> NoNode

\* The statements of a block up to its "}"; nx is the index of that "}".
ParseStmts(t, i, acc) ==
    IF Tok(t, i) = "}" THEN [ok |-> TRUE, kids |-> acc, nx |-> i]
    ELSE LET s == ParseStmt(t, i) IN
         IF s.ok THEN ParseStmts(t, s.nx, Append(acc, s))
         ELSE [ok |-> FALSE, kids |-> <<>>, nx |-> 0]

RECURSIVE ParseDecls(_, _, _)

\* The top-level declarations from token i on: forward declarations of
\* markers, global variables ("int g" ";") and function definitions, each
\* optionally preceded by "static".
ParseDecls(t, i, acc) ==
    LET st == IF Tok(t, i) = "static" THEN 1 ELSE 0
        c  == Tok(t, i + st)
    IN
    IF i > Len(t) THEN Node("tu", 1, Len(t), Len(t) + 1, acc)
    ELSE IF st = 0 /\ IsMarkerDecl(t, c)
         THEN ParseDecls(t, i + 1, Append(acc, Node("markerdecl", i, i, i + 1, <<>>)))
    ELSE IF c = "int g" /\ Tok(t, i + st + 1) = ";"
         THEN ParseDecls(t, i + st + 2,
                         Append(acc, Node(IF st = 1 THEN "staticvar" ELSE "var",
                                          i, i + st + 1, i + st + 2, <<>>)))
    ELSE IF c \in {"fn", "main"} /\ IsLBrace(Tok(t, i + st + 1))
         THEN LET body == ParseStmt(t, i + st + 1) IN
              IF body.ok
              THEN ParseDecls(t, body.nx,
                              Append(acc, Node(IF st = 1 THEN "static" \o c ELSE c,
                                               i, body.e, body.nx, <<body>>)))
              ELSE NoNode
    ELSE NoNode

\* The translation unit of a main file.
ParseTU(t) == ParseDecls(t, 1, <<>>)


\* Whether the text compiles: it parses, every case/default label is inside
\* a switch and every break inside a loop or a switch.
RECURSIVE WellFormed(_, _, _)
WellFormed(n, inSwitch, inBreakable) ==
    /\ n.k \in {"case", "default"} => inSwitch
    /\ n.k = "break" => inBreakable
    /\ \A i \in 1..Len(n.kids) :
          WellFormed(n.kids[i],
                     (inSwitch /\ n.k \notin {"fn", "main"}) \/ n.k = "switch",
                     inBreakable \/ n.k \in {"switch", "for", "while", "do"})

Compiles(t) == ParseTU(t).ok /\ WellFormed(ParseTU(t), FALSE, FALSE)

(***************************************************************************)
(* Source locations.  A location is the index of a token of the main file  *)
(* (where the token is expanded); 0 is the invalid location.  The token    *)
(* "LB" is spelled in the header, "LBC" in the command-line buffer, which  *)
(* has no file entry, and every other token where it stands.               *)
(***************************************************************************)

MainFile == "main"

HeaderFile == "hdr"

\* Replacement's path for a location that has no file entry.
InvalidLocation == "invalid-location"

\* The header: `#define LB {`.
HeaderText == <<"#define LB", "{">>

IsMacroID(t, loc) == Tok(t, loc) \in {"LB", "LBC"}

\* SourceManager::getSpellingLoc: file and offset where the token's
\* characters are written.
GetSpellingLoc(t, loc) ==
    IF Tok(t, loc) = "LB" THEN [f |-> HeaderFile, off |-> 2]
    ELSE IF Tok(t, loc) = "LBC" THEN [f |-> InvalidLocation, off |-> 1]
    ELSE [f |-> MainFile, off |-> loc]

\* SourceManager::getDecomposedLoc(loc).first: a macro expansion has a
\* FileID of its own.
GetDecomposedFile(t, loc) ==
    IF IsMacroID(t, loc) THEN <<"expansion", loc>> ELSE <<MainFile>>

\* SourceManager::getCharacterData + Lexer::MeasureTokenLength: the text of
\* the token at loc.
TokenText(t, loc) == <<Tok(t, loc)>>

\* A faulty variant of EndTokenLoc, which C22 tells from it: the boundary is
\* always the body's last token, a following ';' is not looked for.
EndOfStmtLoc(t, StmtEnd) == StmtEnd

\* Lexer::findNextToken followed by the tok::semi test, else
\* Lexer::GetBeginningOfToken: the location that receives what is appended
\* after a statement whose last token is at StmtEnd.
EndTokenLoc(t, StmtEnd) ==
    IF Tok(t, StmtEnd + 1) = ";" THEN StmtEnd + 1 ELSE StmtEnd

(***************************************************************************)
(* The edit set: tooling::Replacement and tooling::Replacements.           *)
(***************************************************************************)

Replacement(path, off, len, text) ==
    [path |-> path, off |-> off, len |-> len, text |-> text]

\* tooling::Replacement(): the replacement of a failed createReplacement.
NoReplacement == Replacement(InvalidLocation, 0, 0, <<>>)

\* dcei::createReplacement.
createReplacement(t, Start, End, ReplacementText) ==
    IF Start = 0 \/ End = 0 THEN NoReplacement
    ELSE IF GetDecomposedFile(t, Start) # GetDecomposedFile(t, End) THEN NoReplacement
    ELSE IF GetSpellingLoc(t, Start).f # GetSpellingLoc(t, End).f THEN NoReplacement
    ELSE Replacement(GetSpellingLoc(t, Start).f, GetSpellingLoc(t, Start).off,
                     GetSpellingLoc(t, End).off + 1 - GetSpellingLoc(t, Start).off,
                     ReplacementText)

\* Range::overlapsWith, and two insertions at one offset.
Overlap(R1, R2) ==
    \/ R1.off + R1.len > R2.off /\ R1.off < R2.off + R2.len
    \/ R1.len = 0 /\ R2.len = 0 /\ R1.off = R2.off

\* Replacements::add succeeds when R overlaps nothing, or when merging R
\* with what it overlaps gives the same text in either order.
Mergeable(R, I) ==
    IF R.len = 0 /\ I.len = 0 THEN R.text \o I.text = I.text \o R.text
    ELSE R.off = I.off /\ R.len = I.len /\ R.text = I.text

AddFails(Replaces, R) == \E I \in Replaces : Overlap(R, I) /\ ~Mergeable(R, I)

Add(Replaces, R) ==
    IF \E I \in Replaces : Overlap(R, I)
    THEN IF R.len = 0
         THEN LET I == CHOOSE I \in Replaces : Overlap(R, I) IN
              (Replaces \ {I}) \cup {Replacement(R.path, R.off, 0, R.text \o I.text)}
         ELSE Replaces
    ELSE Replaces \cup {R}

\* The edit sets of a tool: FileToReplacements, with the flag that
\* addReplacementOrDie reached llvm_unreachable.
NoEdits == [f \in {MainFile, HeaderFile, InvalidLocation} |-> {}]

\* dcei::addReplacementOrDie on the edit sets ftr: the sets afterwards and
\* whether the add failed.
addReplacementOrDie(t, Start, End, ReplacementText, ftr) ==
    LET R == createReplacement(t, Start, End, ReplacementText) IN
    IF AddFails(ftr[R.path], R) THEN [ftr |-> ftr, die |-> TRUE]
    ELSE [ftr |-> [ftr EXCEPT ![R.path] = Add(ftr[R.path], R)], die |-> FALSE]

\* tooling::applyAllReplacements on one file: every replaced range gives way
\* to its replacement text.
RECURSIVE ApplyFrom(_, _, _)
ApplyFrom(t, Replaces, i) ==
    IF i > Len(t) THEN <<>>
    ELSE IF \E R \in Replaces : R.off = i
         THEN LET R == CHOOSE R \in Replaces : R.off = i IN
              IF R.len = 0 THEN R.text \o <<t[i]>> \o ApplyFrom(t, Replaces, i + 1)
              ELSE R.text \o ApplyFrom(t, Replaces, i + R.len)
         ELSE <<t[i]>> \o ApplyFrom(t, Replaces, i + 1)

applyAllReplacements(t, Replaces) == ApplyFrom(t, Replaces, 1)

(***************************************************************************)
(* The AST matchers and the order in which MatchFinder runs the callbacks. *)
(***************************************************************************)

\* hasDescendant(<a node of one of the kinds>).
RECURSIVE HasDescendant(_, _)
HasDescendant(n, kinds) ==
    \E i \in 1..Len(n.kids) :
        n.kids[i].k \in kinds \/ HasDescendant(n.kids[i], kinds)

\* A bound node handed to a callback: the binding's name and the node.
Bound(id, n) == [id |-> id, n |-> n]

\* caseStmt/defaultStmt(unless(anyOf(hasDescendant(defaultStmt()),
\* hasDescendant(caseStmt())))).bind("switch_case"): both tools register it.
SwitchCaseMatcher(n, kind) ==
    IF n.k = kind /\ ~HasDescendant(n, {"default", "case"})
    THEN <<Bound("switch_case", n)>> ELSE <<>>

\* DCECanonicalizerTool::registerMatchers: the matches of node n, in the
\* order the matchers were added.
CanonMatchers(n) ==
    (IF n.k = "if" THEN <<Bound("stmt", n.kids[1])>> ELSE <<>>)
    \o (IF n.k = "if" /\ Len(n.kids) = 2 THEN <<Bound("stmt", n.kids[2])>> ELSE <<>>)
    \o (IF n.k \in {"for", "while", "do"} THEN <<Bound("stmt", n.kids[1])>> ELSE <<>>)
    \o SwitchCaseMatcher(n, "case")
    \o SwitchCaseMatcher(n, "default")

\* allOf(isExpansionInMainFile(), hasDescendant(returnStmt())).
HasReturnDesc(n) == HasDescendant(n, {"return"})

\* DCEInstrumenterTool::registerMatchers.
InstrMatchers(n) ==
    (IF n.k = "if" /\ n.kids[1].k = "compound"
     THEN <<Bound("cstmt", n.kids[1])>> ELSE <<>>)
    \o (IF n.k = "if" /\ Len(n.kids) = 2 /\ n.kids[Len(n.kids)].k = "compound"
        THEN <<Bound("cstmt", n.kids[2])>> ELSE <<>>)
    \o (IF n.k \in {"for", "while", "do"} /\ n.kids[1].k = "compound"
        THEN <<Bound("cstmt", n.kids[1])>> ELSE <<>>)
    \o SwitchCaseMatcher(n, "case")
    \o SwitchCaseMatcher(n, "default")
    \o (IF n.k \in {"if", "for", "while", "do", "switch"} /\ HasReturnDesc(n)
        THEN <<Bound("stmt_with_return_descendant", n)>> ELSE <<>>)

\* A faulty variant of StaticMatchers, which C19 tells from it: main is
\* matched like any other function.
StaticMatchersWithMain(n) ==
    (IF n.k = "var" THEN <<Bound("global", n)>> ELSE <<>>)
    \o (IF n.k \in {"fn", "main"} THEN <<Bound("global", n)>> ELSE <<>>)

\* GlobalStaticInstrumenterTool::registerMatchers: a global variable
\* definition that is not static, a function definition that is neither
\* static nor main.
StaticMatchers(n) ==
    (IF n.k = "var" THEN <<Bound("global", n)>> ELSE <<>>)
    \o (IF n.k = "fn" THEN <<Bound("global", n)>> ELSE <<>>)

Matchers(tool, n) ==
    CASE tool = "canonicalize" -> CanonMatchers(n)
      [] tool = "makeGlobalsStatic" -> StaticMatchers(n)
      [] tool = "instrument" -> InstrMatchers(n)

\* MatchFinder walks the tree with RecursiveASTVisitor: a statement's
\* children are matched, in order, when the statement is visited (they are
\* matched as they are queued), and are themselves visited afterwards, first
\* child first and each with its whole subtree.
RECURSIVE MatchKids(_, _, _)
MatchKids(tool, kids, i) ==
    IF i > Len(kids) THEN <<>>
    ELSE Matchers(tool, kids[i]) \o MatchKids(tool, kids, i + 1)

\* A faulty variant of VisitStmt, which C12 and C13 tell from it: a plain
\* pre-order walk, each child matched just before its own subtree is walked.
RECURSIVE PreorderKids(_, _, _)
PreorderKids(tool, kids, i) ==
    IF i > Len(kids) THEN <<>>
    ELSE Matchers(tool, kids[i]) \o PreorderKids(tool, kids[i].kids, 1)
         \o PreorderKids(tool, kids, i + 1)

PreorderStmt(tool, n) == PreorderKids(tool, n.kids, 1)

RECURSIVE VisitStmt(_, _)
RECURSIVE VisitKids(_, _, _)
VisitStmt(tool, n) == MatchKids(tool, n.kids, 1) \o VisitKids(tool, n.kids, 1)

VisitKids(tool, kids, i) ==
    IF i > Len(kids) THEN <<>>
    ELSE VisitStmt(tool, kids[i]) \o VisitKids(tool, kids, i + 1)

\* A declaration is matched and then walked before the next declaration.
RECURSIVE TraverseDecls(_, _, _)
TraverseDecls(tool, decls, i) ==
    IF i > Len(decls) THEN <<>>
    ELSE Matchers(tool, decls[i])
         \o MatchKids(tool, decls[i].kids, 1)
         \o VisitKids(tool, decls[i].kids, 1)
         \o TraverseDecls(tool, decls, i + 1)

\* The callbacks of one run of a tool over the translation unit, in order.
MatchSequence(tool, tu) == TraverseDecls(tool, tu.kids, 1)

(***************************************************************************)
(* DCECanonicalizerTool.                                                   *)
(***************************************************************************)

\* The canonicalizer's state: the edit sets it shares with the driver, the
\* brace debt per location and whether an add failed.
CanonState(ftr, braces, die) == [ftr |-> ftr, braces |-> braces, die |-> die]

\* ++CurlyBracesInsertedAtLocation[loc].
AddBrace(braces, loc) ==
    IF loc \in DOMAIN braces THEN [braces EXCEPT ![loc] = @ + 1]
    ELSE [l \in DOMAIN braces \cup {loc} |-> IF l = loc THEN 1 ELSE braces[l]]

\* A faulty variant of IsCompoundStmt, which C1 tells from it: an empty
\* block does not count as a block.
IsNonEmptyCompoundStmt(n) == n.k = "compound" /\ n.kids # <<>>

\* isa<CompoundStmt>(Statement).
IsCompoundStmt(n) == n.k = "compound"

\* A faulty variant of IsNullStmt, which C21 tells from it: an empty
\* statement is handled like any other statement.
IsNeverNullStmt(n) == FALSE

\* isa<NullStmt>(Statement).
IsNullStmt(n) == n.k = "null"

\* A faulty variant of OpenBraceText, which C27 tells from it: the body's
\* first token is not written back.
OpenBraceOnly(t, StmtBegin) == <<"{">>

\* The text of the opening edit: "{" and the body's first token.
OpenBraceText(t, StmtBegin) == <<"{">> \o TokenText(t, StmtBegin)

\* The text of the closing edit: the boundary token and its braces.
RECURSIVE Braces(_)
Braces(n) == IF n = 0 THEN <<>> ELSE <<"}">> \o Braces(n - 1)

CloseBraceText(t, Loc, NBraces) == TokenText(t, Loc) \o Braces(NBraces)

\* DCECanonicalizerTool::handleStmt.
handleStmt(t, st, Statement) ==
    IF GetSpellingLoc(t, Statement.b).f # MainFile THEN st
    ELSE IF IsCompoundStmt(Statement) THEN st
    ELSE IF IsNullStmt(Statement)
    THEN LET r == addReplacementOrDie(t, Statement.b, Statement.b, <<"{", "}">>, st.ftr)
         IN CanonState(r.ftr, st.braces, st.die \/ r.die)
    ELSE LET r == addReplacementOrDie(t, Statement.b, Statement.b,
                                      OpenBraceText(t, Statement.b), st.ftr)
         IN CanonState(r.ftr, AddBrace(st.braces, EndTokenLoc(t, Statement.e)),
                       st.die \/ r.die)

\* A faulty variant of CanonRunOn, which C23 tells from it: the label itself
\* is handled, not the statement attached to it.
CanonRunOnLabel(t, st, m) == handleStmt(t, st, m.n)

\* DCECanonicalizerTool::run.
CanonRunOn(t, st, m) ==
    IF m.id = "stmt" THEN handleStmt(t, st, m.n)
    ELSE IF m.id = "switch_case" THEN handleStmt(t, st, m.n.kids[1])
    ELSE st

\* The locations that hold brace debt, in the order of the map: ascending.
RECURSIVE SortedLocs(_)
SortedLocs(S) ==
    IF S = {} THEN <<>>
    ELSE LET m == CHOOSE x \in S : \A y \in S : x <= y IN
         <<m>> \o SortedLocs(S \ {m})

RECURSIVE FlushBraces(_, _, _, _)
FlushBraces(t, st, locs, i) ==
    IF i > Len(locs) THEN st
    ELSE LET r == addReplacementOrDie(t, locs[i], locs[i],
                                      CloseBraceText(t, locs[i], st.braces[locs[i]]),
                                      st.ftr)
         IN FlushBraces(t, CanonState(r.ftr, st.braces, st.die \/ r.die), locs, i + 1)

\* DCECanonicalizerTool::onEndOfTranslationUnit.
CanonOnEndOfTranslationUnit(t, st) ==
    FlushBraces(t, st, SortedLocs(DOMAIN st.braces), 1)

\* A whole run of the canonicalizer over text t: every callback in
\* MatchFinder's order, then onEndOfTranslationUnit.
RECURSIVE CanonCallbacks(_, _, _, _)
CanonCallbacks(t, st, ms, i) ==
    IF i > Len(ms) THEN st
    ELSE CanonCallbacks(t, CanonRunOn(t, st, ms[i]), ms, i + 1)

CanonicalizerRun(t) ==
    CanonOnEndOfTranslationUnit(t,
        CanonCallbacks(t, CanonState(NoEdits, [l \in {} |-> 0], FALSE),
                       MatchSequence("canonicalize", ParseTU(t)), 1))

(***************************************************************************)
(* DCEInstrumenterTool.                                                    *)
(***************************************************************************)

\* The instrumenter's state: the edit sets, the marker counter and whether
\* an add failed.
InstrState(ftr, n, die) == [ftr |-> ftr, n |-> n, die |-> die]

\* DCEInstrumenterTool::getNewDCECallStr: the call statement of marker n.
getNewDCECallStr(n) == <<MarkerCall(n), ";">>

\* A faulty variant of EntryProbeText, which C24 tells from it: the probe
\* call is put before the block's '{', not inside the block.
EntryProbeBeforeBlock(n) == getNewDCECallStr(n) \o <<"{">>

\* The text of the entry probe edit.
EntryProbeText(n) == <<"{">> \o getNewDCECallStr(n)

\* DCEInstrumenterTool::handleCompoundStmt.
handleCompoundStmt(t, st, CStatement) ==
    LET r == addReplacementOrDie(t, CStatement.b, CStatement.b,
                                 EntryProbeText(st.n), st.ftr)
    IN InstrState(r.ftr, st.n + 1, st.die \/ r.die)

\* A faulty variant of FallThroughProbeText, which C10 tells from it: the
\* call is put before the token.
ProbeBeforeTokenText(t, Loc, n) == getNewDCECallStr(n) \o TokenText(t, Loc)

\* The text of the fall-through probe edit.
FallThroughProbeText(t, Loc, n) == TokenText(t, Loc) \o getNewDCECallStr(n)

\* DCEInstrumenterTool::handleStmtWithReturnDescendant.
handleStmtWithReturnDescendant(t, st, Statement) ==
    IF GetSpellingLoc(t, Statement.e).f # MainFile THEN st
    ELSE LET Loc == EndTokenLoc(t, Statement.e)
             r   == addReplacementOrDie(t, Loc, Loc,
                                        FallThroughProbeText(t, Loc, st.n), st.ftr)
         IN InstrState(r.ftr, st.n + 1, st.die \/ r.die)

\* DCEInstrumenterTool::run.
InstrRunOn(t, st, m) ==
    IF m.id = "cstmt" THEN handleCompoundStmt(t, st, m.n)
    ELSE IF m.id = "stmt_with_return_descendant"
    THEN handleStmtWithReturnDescendant(t, st, m.n)
    ELSE IF m.id = "switch_case" /\ IsCompoundStmt(m.n.kids[1])
    THEN handleCompoundStmt(t, st, m.n.kids[1])
    ELSE st

\* The forward declarations of markers 0..n-1, ascending.
RECURSIVE MarkerDecls(_, _)
MarkerDecls(i, n) == IF i >= n THEN <<>> ELSE <<MarkerDecl(i)>> \o MarkerDecls(i + 1, n)

\* A faulty variant of InstrOnEndOfTranslationUnit, which C5 tells from
\* it: the edit at the start of the file is made whatever the counter.
AlwaysDeclare(t, st) ==
    LET r == addReplacementOrDie(t, 1, 1, MarkerDecls(0, st.n) \o TokenText(t, 1),
                                 st.ftr)
    IN InstrState(r.ftr, st.n, st.die \/ r.die)

\* A faulty variant of InstrOnEndOfTranslationUnit, which C14 tells from
\* it: the declarations replace the first token instead of preceding it.
DeclareOverFirstToken(t, st) ==
    IF st.n = 0 THEN st
    ELSE LET r == addReplacementOrDie(t, 1, 1, MarkerDecls(0, st.n), st.ftr)
         IN InstrState(r.ftr, st.n, st.die \/ r.die)

\* DCEInstrumenterTool::onEndOfTranslationUnit.
InstrOnEndOfTranslationUnit(t, st) ==
    IF st.n = 0 THEN st
    ELSE LET r == addReplacementOrDie(t, 1, 1, MarkerDecls(0, st.n) \o TokenText(t, 1),
                                      st.ftr)
         IN InstrState(r.ftr, st.n, st.die \/ r.die)

\* The callbacks of one run of the instrumenter, in order, from match i on.
RECURSIVE InstrCallbacks(_, _, _, _)
InstrCallbacks(t, st, ms, i) ==
    IF i > Len(ms) THEN st ELSE InstrCallbacks(t, InstrRunOn(t, st, ms[i]), ms, i + 1)

\* A whole run of a fresh instrumenter over text t: what applyTool's
\* Tool.run leaves in the tool for the "instrument" pass.
InstrumenterRun(t) ==
    InstrOnEndOfTranslationUnit(t,
        InstrCallbacks(t, InstrState(NoEdits, 0, FALSE),
                       MatchSequence("instrument", ParseTU(t)), 1))

(***************************************************************************)
(* GlobalStaticInstrumenterTool.                                           *)
(***************************************************************************)

\* GlobalStaticInstrumenterTool::run.
StaticRunOn(t, st, m) ==
    IF m.id = "global"
    THEN LET r == addReplacementOrDie(t, m.n.b, m.n.b,
                                      <<"static">> \o TokenText(t, m.n.b), st.ftr)
         IN [ftr |-> r.ftr, die |-> st.die \/ r.die]
    ELSE st

\* The callbacks of one run of the pass, in order, from match i on.
RECURSIVE StaticCallbacks(_, _, _, _)
StaticCallbacks(t, st, ms, i) ==
    IF i > Len(ms) THEN st ELSE StaticCallbacks(t, StaticRunOn(t, st, ms[i]), ms, i + 1)

\* A whole run of a fresh GlobalStaticInstrumenterTool over text t.
GlobalStaticRun(t) ==
    StaticCallbacks(t, [ftr |-> NoEdits, die |-> FALSE],
                    MatchSequence("makeGlobalsStatic", ParseTU(t)), 1)

(***************************************************************************)
(* The inputs: main files given to the driver.                             *)
(***************************************************************************)

\* How deep constructs nest in the generated statements.
MaxNest == 2

\* How many labels a fallthrough group of a generated switch has at most.
MaxLabels == 2

ExprStmt == <<"a", "=", "1", ";">>

ReturnStmt == <<"return", "0", ";">>

BreakStmt == <<"break", ";">>

Leaves == {ExprStmt, ReturnStmt, <<";">>}

Heads == {"if", "ifelse", "else", "for", "do", "switch", "block", "lbblock",
          "lbcblock"}

\* The construct head h around statement s.
Wrap(h, s) ==
    CASE h = "if" -> <<"if">> \o s
      [] h = "ifelse" -> <<"if">> \o s \o <<"else">> \o ExprStmt
      [] h = "else" -> <<"if">> \o ExprStmt \o <<"else">> \o s
      [] h = "for" -> <<"for">> \o s
      [] h = "do" -> <<"do">> \o s \o <<"while", ";">>
      [] h = "switch" -> <<"switch">> \o s
      [] h = "block" -> <<"{">> \o s \o <<"}">>
      [] h = "lbblock" -> <<"LB">> \o s \o <<"}">>
      [] h = "lbcblock" -> <<"LBC">> \o s \o <<"}">>

\* Statements of nesting depth at most d.
RECURSIVE Nested(_)
Nested(d) ==
    IF d = 0 THEN Leaves
    ELSE Nested(d - 1) \cup {Wrap(h, s) : h \in Heads, s \in Nested(d - 1)}

\* n labels in a row.
RECURSIVE Labels(_)
Labels(n) == IF n = 0 THEN <<>> ELSE <<"case">> \o Labels(n - 1)

\* What a fallthrough group of a generated switch governs.
GroupBodies ==
    { ExprStmt \o BreakStmt, ReturnStmt, <<"{">> \o ExprStmt \o <<"}">>,
      <<"switch", "{", "case">> \o ExprStmt \o <<"}">>,
      <<"{", "switch", "{", "case">> \o ReturnStmt \o <<"}", "}">> }

Groups == {Labels(n) \o b : n \in 1..MaxLabels, b \in GroupBodies}

\* Switch statements of one or two fallthrough groups, the last label
\* possibly `default:`.
Switches ==
    {<<"switch", "{">> \o g \o <<"}">> : g \in Groups}
    \cup {<<"switch", "{">> \o g \o h \o <<"}">> : g \in Groups, h \in Groups}
    \cup {<<"switch", "{">> \o g \o <<"default">> \o ExprStmt \o <<"}">> : g \in Groups}

\* Inputs of the repository's tests (dcec_test.cpp "nested complex", the
\* instrumenter's "switch" and "nested if with return").
TestInputs ==
    { <<"if", "for", "switch", "{", "case", "break", ";", "default", "while">>
         \o ExprStmt \o ReturnStmt \o <<"}", "else", "do">> \o ExprStmt
         \o <<"while", ";">> \o ReturnStmt,
      <<"switch", "{", "case">> \o ExprStmt \o BreakStmt \o <<"case", "case">>
         \o BreakStmt \o <<"case">> \o ReturnStmt \o <<"case", "{">> \o ExprStmt
         \o <<"}", "default">> \o ExprStmt \o <<"}">> \o ReturnStmt,
      <<"if", "{", "if", "{">> \o ReturnStmt \o <<"}", "}">> \o ReturnStmt,
      <<"switch", "while", "{", "case">> \o ReturnStmt \o <<"}">> }

\* Two constructs in a row, the first with a construct nested in it.
Siblings ==
    {Wrap(h1, Wrap(h2, l)) \o Wrap(h3, ExprStmt) :
        h1 \in {"if", "for"}, h2 \in {"if", "ifelse"}, h3 \in {"if", "for"},
        l \in {ExprStmt, ReturnStmt}}

\* The inputs of the tests of the promote-to-static pass: global variables
\* and functions, some already static, and main.
GlobalVar == <<"int g", ";">>

StaticGlobalVar == <<"static">> \o GlobalVar

GlobalInputs ==
    { GlobalVar, GlobalVar \o GlobalVar, StaticGlobalVar \o StaticGlobalVar,
      GlobalVar \o StaticGlobalVar,
      <<"main", "{">> \o ReturnStmt \o <<"}", "fn", "{">> \o ReturnStmt
         \o <<"}", "static", "fn", "{">> \o ReturnStmt \o <<"}">>,
      GlobalVar \o <<"main", "{", "if">> \o ReturnStmt \o <<"}">> }

\* What follows the generated statement in the function body.
Tails == {<<>>, <<";">>}

FunctionOf(s) == <<"fn", "{">> \o s \o <<"}">>

\* A label whose attached statement ends in '}' and is followed by an empty
\* statement: the ';' that Lexer::findNextToken finds after the attached
\* statement is a statement of its own.
LabelRuns ==
    { <<"switch", "{", "case">> \o Wrap("if", Wrap("block", ExprStmt))
         \o <<";">> \o BreakStmt \o <<"}">> }

Candidates ==
    {FunctionOf(s \o tl) : s \in Nested(MaxNest) \cup Switches, tl \in Tails}
    \cup {FunctionOf(s) : s \in TestInputs \cup Siblings \cup LabelRuns}
    \cup GlobalInputs

\* The main files the driver is run on: the candidates that compile.
Programs == {t \in Candidates : Compiles(t)}

(***************************************************************************)
(* The driver: main runs canonicalize, makeGlobalsStatic and instrument,   *)
(* each an applyTool over the files on disk.                               *)
(***************************************************************************)

VARIABLES
    disk,       \* the files on disk: path -> text
    input,      \* the main file as the driver found it
    pass,       \* the pass main is in
    pc,         \* where applyTool is: "applyTool", "run", "apply", "exit"
    ast,        \* the translation unit Tool.run parsed for this pass
    todo,       \* the callbacks MatchFinder has still to make
    FileToReplacements,             \* Tool.getReplacements()
    CurlyBracesInsertedAtLocation,  \* the canonicalizer's brace debt
    NFunctionsInserted,             \* the instrumenter's marker counter
    Result,     \* main's result: "running", "0", "1", "abort"
    unreachable \* whether an llvm_unreachable was passed (NDEBUG build)

vars == <<disk, input, pass, pc, ast, todo, FileToReplacements,
          CurlyBracesInsertedAtLocation, NFunctionsInserted, Result, unreachable>>

NoBraces == [l \in {} |-> 0]

Init ==
    /\ input \in Programs
    /\ disk = [f \in {MainFile, HeaderFile} |->
                 IF f = MainFile THEN input ELSE HeaderText]
    /\ pass = "canonicalize"
    /\ pc = "applyTool"
    /\ ast = NoNode
    /\ todo = <<>>
    /\ FileToReplacements = NoEdits
    /\ CurlyBracesInsertedAtLocation = NoBraces
    /\ NFunctionsInserted = 0
    /\ Result = "running"
    /\ unreachable = FALSE

\* The text of the main file the current pass works on.
Text == disk[MainFile]

\* A faulty variant of ToolStart, which C11 tells from it: the tool of the
\* pass starts with the edit sets the pass before left behind.
ToolStartKeepingEdits ==
    /\ pc = "applyTool"
    /\ CurlyBracesInsertedAtLocation' = NoBraces
    /\ NFunctionsInserted' = 0
    /\ IF Compiles(disk[MainFile])
       THEN /\ ast' = ParseTU(disk[MainFile])
            /\ todo' = MatchSequence(pass, ParseTU(disk[MainFile]))
            /\ pc' = "run"
            /\ Result' = Result
       ELSE /\ ast' = NoNode
            /\ todo' = <<>>
            /\ pc' = "exit"
            /\ Result' = "1"
    /\ UNCHANGED <<disk, input, pass, unreachable, FileToReplacements>>

\* applyTool up to the start of Tool.run: a fresh tool with empty edit
\* sets; the main file is parsed, and a file that does not compile makes
\* Tool.run, applyTool and main return non-zero.
ToolStart ==
    /\ pc = "applyTool"
    /\ FileToReplacements' = NoEdits
    /\ CurlyBracesInsertedAtLocation' = NoBraces
    /\ NFunctionsInserted' = 0
    /\ IF Compiles(Text)
       THEN /\ ast' = ParseTU(Text)
            /\ todo' = MatchSequence(pass, ParseTU(Text))
            /\ pc' = "run"
            /\ Result' = Result
       ELSE /\ ast' = NoNode
            /\ todo' = <<>>
            /\ pc' = "exit"
            /\ Result' = "1"
    /\ UNCHANGED <<disk, input, pass, unreachable>>

\* llvm_unreachable after a failed add: the build with assertions reports
\* and aborts; in the NDEBUG build execution runs on without the edit.
Outcomes(die) == IF die THEN {"abort", "continue"} ELSE {"ok"}

Abort ==
    /\ pc' = "exit"
    /\ Result' = "abort"
    /\ UNCHANGED <<disk, input, pass, ast, todo, FileToReplacements,
                   CurlyBracesInsertedAtLocation, NFunctionsInserted, unreachable>>

\* DCECanonicalizerTool::run on the next match.
CanonRun ==
    /\ pc = "run" /\ pass = "canonicalize" /\ todo # <<>>
    /\ LET st == CanonRunOn(Text,
                            CanonState(FileToReplacements,
                                       CurlyBracesInsertedAtLocation, FALSE),
                            Head(todo))
       IN \E o \in Outcomes(st.die) :
            IF o = "abort" THEN Abort
            ELSE /\ FileToReplacements' = st.ftr
                 /\ CurlyBracesInsertedAtLocation' = st.braces
                 /\ todo' = Tail(todo)
                 /\ unreachable' = (unreachable \/ st.die)
                 /\ UNCHANGED <<disk, input, pass, pc, ast, NFunctionsInserted, Result>>

\* DCECanonicalizerTool::onEndOfTranslationUnit, after the last match.
CanonEndOfTU ==
    /\ pc = "run" /\ pass = "canonicalize" /\ todo = <<>>
    /\ LET st == CanonOnEndOfTranslationUnit(Text,
                     CanonState(FileToReplacements,
                                CurlyBracesInsertedAtLocation, FALSE))
       IN \E o \in Outcomes(st.die) :
            IF o = "abort" THEN Abort
            ELSE /\ FileToReplacements' = st.ftr
                 /\ pc' = "apply"
                 /\ unreachable' = (unreachable \/ st.die)
                 /\ UNCHANGED <<disk, input, pass, ast, todo,
                                CurlyBracesInsertedAtLocation, NFunctionsInserted,
                                Result>>

\* GlobalStaticInstrumenterTool::run on the next match.
StaticRun ==
    /\ pc = "run" /\ pass = "makeGlobalsStatic" /\ todo # <<>>
    /\ LET st == StaticRunOn(Text, [ftr |-> FileToReplacements, die |-> FALSE],
                             Head(todo))
       IN \E o \in Outcomes(st.die) :
            IF o = "abort" THEN Abort
            ELSE /\ FileToReplacements' = st.ftr
                 /\ todo' = Tail(todo)
                 /\ unreachable' = (unreachable \/ st.die)
                 /\ UNCHANGED <<disk, input, pass, pc, ast,
                                CurlyBracesInsertedAtLocation, NFunctionsInserted,
                                Result>>

\* The pass has no onEndOfTranslationUnit of its own.
StaticEndOfTU ==
    /\ pc = "run" /\ pass = "makeGlobalsStatic" /\ todo = <<>>
    /\ pc' = "apply"
    /\ UNCHANGED <<disk, input, pass, ast, todo, FileToReplacements,
                   CurlyBracesInsertedAtLocation, NFunctionsInserted, Result,
                   unreachable>>

\* DCEInstrumenterTool::run on the next match.
InstrRun ==
    /\ pc = "run" /\ pass = "instrument" /\ todo # <<>>
    /\ LET st == InstrRunOn(Text,
                            InstrState(FileToReplacements, NFunctionsInserted, FALSE),
                            Head(todo))
       IN \E o \in Outcomes(st.die) :
            IF o = "abort" THEN Abort
            ELSE /\ FileToReplacements' = st.ftr
                 /\ NFunctionsInserted' = st.n
                 /\ todo' = Tail(todo)
                 /\ unreachable' = (unreachable \/ st.die)
                 /\ UNCHANGED <<disk, input, pass, pc, ast,
                                CurlyBracesInsertedAtLocation, Result>>

\* DCEInstrumenterTool::onEndOfTranslationUnit.
InstrEndOfTU ==
    /\ pc = "run" /\ pass = "instrument" /\ todo = <<>>
    /\ LET st == InstrOnEndOfTranslationUnit(Text,
                     InstrState(FileToReplacements, NFunctionsInserted, FALSE))
       IN \E o \in Outcomes(st.die) :
            IF o = "abort" THEN Abort
            ELSE /\ FileToReplacements' = st.ftr
                 /\ pc' = "apply"
                 /\ unreachable' = (unreachable \/ st.die)
                 /\ UNCHANGED <<disk, input, pass, ast, todo,
                                CurlyBracesInsertedAtLocation, NFunctionsInserted,
                                Result>>

\* A faulty variant of NextPass, which C18 tells from it: the driver goes
\* from canonicalize straight to instrument.
PassAfterSkippingStatic(p) ==
    CASE p = "canonicalize" -> "instrument"
      [] p = "makeGlobalsStatic" -> "instrument"
      [] p = "instrument" -> "done"

NextPass(p) ==
    CASE p = "canonicalize" -> "makeGlobalsStatic"
      [] p = "makeGlobalsStatic" -> "instrument"
      [] p = "instrument" -> "done"

\* formatAndApplyAllReplacements and Rewrite.overwriteChangedFiles: the
\* edits of every file that exists are applied and the changed files
\* written; applyTool returns 0 and main goes on to the next pass.
Apply ==
    /\ pc = "apply"
    /\ disk' = [f \in DOMAIN disk |-> applyAllReplacements(disk[f], FileToReplacements[f])]
    /\ pass' = NextPass(pass)
    /\ pc' = IF pass = "instrument" THEN "exit" ELSE "applyTool"
    /\ Result' = IF pass = "instrument" THEN "0" ELSE Result
    /\ UNCHANGED <<input, ast, todo, FileToReplacements,
                   CurlyBracesInsertedAtLocation, NFunctionsInserted, unreachable>>

\* A faulty variant of ApplyFails, which C16 tells from it: the files are
\* written although applying the replacements failed.
ApplyFailsAfterWriting ==
    /\ pc = "apply"
    /\ disk' = [f \in DOMAIN disk |-> applyAllReplacements(disk[f], FileToReplacements[f])]
    /\ pc' = "exit"
    /\ Result' = "1"
    /\ UNCHANGED <<input, pass, ast, todo, FileToReplacements,
                   CurlyBracesInsertedAtLocation, NFunctionsInserted, unreachable>>

\* formatAndApplyAllReplacements returns false (the style of a file cannot
\* be read, or its replacements cannot be formatted or applied): applyTool
\* returns 1 before Rewrite.overwriteChangedFiles, and so does main.
ApplyFails ==
    /\ pc = "apply"
    /\ pc' = "exit"
    /\ Result' = "1"
    /\ UNCHANGED <<disk, input, pass, ast, todo, FileToReplacements,
                   CurlyBracesInsertedAtLocation, NFunctionsInserted, unreachable>>

Next ==
    \/ ToolStart
    \/ CanonRun
    \/ CanonEndOfTU
    \/ StaticRun
    \/ StaticEndOfTU
    \/ InstrRun
    \/ InstrEndOfTU
    \/ Apply
    \/ ApplyFails

Spec == Init /\ [][Next]_vars

(***************************************************************************)
(* The driver given two source files.  applyTool hands both to one         *)
(* RefactoringTool: Tool.run compiles them one after the other, each with  *)
(* a SourceManager of its own, and the one tool object and its Finder      *)
(* receive the callbacks of both translation units.                        *)
(***************************************************************************)

\* The second file of the source path list.
SecondFile == "second"

\* The files the driver is given in these runs: a function with a block
\* body and a return, one whose body is not a block, one with nothing to
\* instrument, and a global variable.
FilePrograms ==
    { FunctionOf(<<"if", "{">> \o ReturnStmt \o <<"}">>),
      FunctionOf(<<"if">> \o ExprStmt),
      FunctionOf(<<"for", "{">> \o ExprStmt \o <<"}">>),
      FunctionOf(<<";">>),
      GlobalVar }

\* Tool.getReplacements() of a fresh RefactoringTool, by file path.
NoEditsOfFiles == [f \in {MainFile, SecondFile, HeaderFile, InvalidLocation} |-> {}]

InitFiles ==
    /\ input \in FilePrograms
    /\ \E second \in FilePrograms :
          disk = [f \in {MainFile, SecondFile, HeaderFile} |->
                    CASE f = MainFile -> input
                      [] f = SecondFile -> second
                      [] OTHER -> HeaderText]
    /\ pass = "canonicalize"
    /\ pc = "applyTool"
    /\ ast = NoNode
    /\ todo = <<>>
    /\ FileToReplacements = NoEditsOfFiles
    /\ CurlyBracesInsertedAtLocation = NoBraces
    /\ NFunctionsInserted = 0
    /\ Result = "running"
    /\ unreachable = FALSE

\* The callbacks take the main file of the unit from the SourceManager
\* (SM->getMainFileID()); the definitions above call it MainFile.  For the
\* second unit the two paths change places.
SwapPath(f) ==
    CASE f = MainFile -> SecondFile
      [] f = SecondFile -> MainFile
      [] OTHER -> f

SwapEdits(ftr) ==
    [f \in DOMAIN ftr |-> {[R EXCEPT !.path = SwapPath(R.path)] : R \in ftr[SwapPath(f)]}]

\* The members of the tool object of a pass.
ToolState(ftr, braces, n, die) == [ftr |-> ftr, braces |-> braces, n |-> n, die |-> die]

\* ToolType::run of the tool of pass p on match m of text t.
RunOn(p, t, st, m) ==
    CASE p = "canonicalize" ->
            LET r == CanonRunOn(t, CanonState(st.ftr, st.braces, FALSE), m)
            IN ToolState(r.ftr, r.braces, st.n, r.die)
      [] p = "makeGlobalsStatic" ->
            LET r == StaticRunOn(t, [ftr |-> st.ftr, die |-> FALSE], m)
            IN ToolState(r.ftr, st.braces, st.n, r.die)
      [] p = "instrument" ->
            LET r == InstrRunOn(t, InstrState(st.ftr, st.n, FALSE), m)
            IN ToolState(r.ftr, st.braces, r.n, r.die)

\* ToolType::onEndOfTranslationUnit of the tool of pass p.
OnEndOfTranslationUnit(p, t, st) ==
    CASE p = "canonicalize" ->
            LET r == CanonOnEndOfTranslationUnit(t, CanonState(st.ftr, st.braces, FALSE))
            IN ToolState(r.ftr, r.braces, st.n, r.die)
      [] p = "makeGlobalsStatic" -> ToolState(st.ftr, st.braces, st.n, FALSE)
      [] p = "instrument" ->
            LET r == InstrOnEndOfTranslationUnit(t, InstrState(st.ftr, st.n, FALSE))
            IN ToolState(r.ftr, st.braces, r.n, r.die)

\* applyTool up to Tool.run's parse of the first file: a fresh tool.
FilesToolStart ==
    /\ pc = "applyTool"
    /\ FileToReplacements' = NoEditsOfFiles
    /\ CurlyBracesInsertedAtLocation' = NoBraces
    /\ NFunctionsInserted' = 0
    /\ IF Compiles(disk[MainFile]) /\ Compiles(disk[SecondFile])
       THEN /\ ast' = ParseTU(disk[MainFile])
            /\ todo' = MatchSequence(pass, ParseTU(disk[MainFile]))
            /\ pc' = "run"
            /\ Result' = Result
       ELSE /\ ast' = NoNode
            /\ todo' = <<>>
            /\ pc' = "exit"
            /\ Result' = "1"
    /\ UNCHANGED <<disk, input, pass, unreachable>>

\* The end of the first unit: onEndOfTranslationUnit, after which
\* ClangTool::run destroys the unit's compiler instance with its
\* SourceManager and parses the second file.  The tool object lives on:
\* nothing resets its members.
FilesEndOfFirstUnit ==
    /\ pc = "run" /\ todo = <<>>
    /\ LET st == OnEndOfTranslationUnit(pass, disk[MainFile],
                     ToolState(FileToReplacements, CurlyBracesInsertedAtLocation,
                               NFunctionsInserted, FALSE))
       IN \E o \in Outcomes(st.die) :
            IF o = "abort" THEN Abort
            ELSE /\ FileToReplacements' = st.ftr
                 /\ ast' = ParseTU(disk[SecondFile])
                 /\ todo' = MatchSequence(pass, ParseTU(disk[SecondFile]))
                 /\ pc' = "run2"
                 /\ unreachable' = (unreachable \/ st.die)
                 /\ UNCHANGED <<disk, input, pass, CurlyBracesInsertedAtLocation,
                                NFunctionsInserted, Result>>

\* The tool keeps the SourceManager and LangOptions of its first callback
\* (if (not SM) SM = Result.SourceManager): in the second unit they point
\* to destroyed objects whenever the first unit had a callback.
StaleSourceManager == MatchSequence(pass, ParseTU(disk[MainFile])) # <<>>

\* What a callback of the second unit can do: reading through a dangling
\* SM is undefined; the process can crash, or the freed storage holds the
\* second unit's SourceManager and the callback works on the second unit.
OutcomesOfSecondUnit(usesSM, die) ==
    IF (usesSM /\ StaleSourceManager) \/ die THEN {"abort", "continue"} ELSE {"ok"}

\* ToolType::run on the next match of the second unit.
FilesRunSecond ==
    /\ pc = "run2" /\ todo # <<>>
    /\ LET st == RunOn(pass, disk[SecondFile],
                       ToolState(SwapEdits(FileToReplacements),
                                 CurlyBracesInsertedAtLocation, NFunctionsInserted, FALSE),
                       Head(todo))
       IN \E o \in OutcomesOfSecondUnit(TRUE, st.die) :
            IF o = "abort" THEN Abort
            ELSE /\ FileToReplacements' = SwapEdits(st.ftr)
                 /\ CurlyBracesInsertedAtLocation' = st.braces
                 /\ NFunctionsInserted' = st.n
                 /\ todo' = Tail(todo)
                 /\ unreachable' = (unreachable \/ st.die)
                 /\ UNCHANGED <<disk, input, pass, pc, ast, Result>>

\* onEndOfTranslationUnit of the second unit; it reads through SM when
\* there is brace debt to flush or a marker to declare.
FilesEndOfSecondUnit ==
    /\ pc = "run2" /\ todo = <<>>
    /\ LET st == OnEndOfTranslationUnit(pass, disk[SecondFile],
                     ToolState(SwapEdits(FileToReplacements),
                               CurlyBracesInsertedAtLocation, NFunctionsInserted, FALSE))
           usesSM == \/ pass = "canonicalize" /\ CurlyBracesInsertedAtLocation # NoBraces
                     \/ pass = "instrument" /\ NFunctionsInserted # 0
       IN \E o \in OutcomesOfSecondUnit(usesSM, st.die) :
            IF o = "abort" THEN Abort
            ELSE /\ FileToReplacements' = SwapEdits(st.ftr)
                 /\ pc' = "apply"
                 /\ unreachable' = (unreachable \/ st.die)
                 /\ UNCHANGED <<disk, input, pass, ast, todo,
                                CurlyBracesInsertedAtLocation, NFunctionsInserted,
                                Result>>

NextFiles ==
    \/ FilesToolStart
    \/ CanonRun
    \/ StaticRun
    \/ InstrRun
    \/ FilesEndOfFirstUnit
    \/ FilesRunSecond
    \/ FilesEndOfSecondUnit
    \/ Apply
    \/ ApplyFails

SpecFiles == InitFiles /\ [][NextFiles]_vars

(***************************************************************************)
(* The vocabulary of the properties: what the files on disk look like to   *)
(* the compiler, and which statements are bodies.                          *)
(***************************************************************************)

\* The main file after preprocessing: a macro gives way to its body.
RECURSIVE Preprocess(_, _)
Preprocess(t, hdr) ==
    IF t = <<>> THEN <<>>
    ELSE (CASE Head(t) = "LB" -> Tail(hdr)
            [] Head(t) = "LBC" -> <<"{">>
            [] OTHER -> <<Head(t)>>) \o Preprocess(Tail(t), hdr)

\* The translation unit the compiler sees for the files on disk.
Unit == Preprocess(disk[MainFile], disk[HeaderFile])

\* Every node of the tree under n, n included.
RECURSIVE Subtree(_)
Subtree(n) == {n} \cup UNION {Subtree(n.kids[i]) : i \in 1..Len(n.kids)}

IsLabel(n) == n.k \in {"case", "default"}

IsConstruct(n) == n.k \in {"if", "for", "while", "do", "switch"}

\* m is a body of p: a then-branch or else-branch, the body of a loop, or
\* what the last label of a fallthrough group governs.
IsBodyOf(m, p) ==
    \/ p.k = "if" /\ \E i \in 1..Len(p.kids) : p.kids[i] = m
    \/ p.k \in {"for", "while", "do"} /\ p.kids[1] = m
    \/ IsLabel(p) /\ p.kids[1] = m /\ ~IsLabel(m)

Bodies(tu) == {m \in Subtree(tu) : \E p \in Subtree(tu) : IsBodyOf(m, p)}

\* Every body of text t is a block.
AllBodiesAreBlocks(t) == \A m \in Bodies(ParseTU(t)) : m.k = "compound"

\* The block c starts with exactly one probe call.
HasEntryProbe(c) ==
    /\ Len(c.kids) >= 1 /\ c.kids[1].k = "call"
    /\ Len(c.kids) >= 2 => c.kids[2].k # "call"

\* The canonicalizer's edits have just been applied to the main file.
CanonApplied == pass = "makeGlobalsStatic" /\ pc = "applyTool"

\* main has returned 0: all three passes were applied.
Instrumented == pc = "exit" /\ Result = "0"


(***************************************************************************)
(* The canonicalizer.                                                      *)
(***************************************************************************)

\* A run of the canonicalizer recorded nothing: no edit in any file, no
\* brace debt, no failed add.
NoEditAtAll(st) == st.ftr = NoEdits /\ st.braces = NoBraces /\ ~st.die

\* Text in canonical form: it compiles and every body is a block.
InCanonicalForm(t) == Compiles(t) /\ AllBodiesAreBlocks(t)

\* C1 - Idempotence.  Running the canonicalizer on text in canonical form
\* records no edit at all: no opening-brace edit, no "{}" replacement and
\* no closing-brace debt.  This holds for the canonicalizer's own output
\* (run again over the file it has just rewritten) and for an input that
\* is in canonical form to begin with (through the whole pass).
C1_Idempotent ==
    /\ (CanonApplied /\ Compiles(Text)) => NoEditAtAll(CanonicalizerRun(Text))
    /\ (pass = "canonicalize" /\ pc \in {"run", "apply"} /\ InCanonicalForm(input))
          => /\ FileToReplacements = NoEdits
             /\ CurlyBracesInsertedAtLocation = NoBraces

\* The canonicalizer rewrote the file, and a second run over the rewritten
\* file records nothing.
C1_Witness ==
    /\ CanonApplied /\ Text # input /\ Compiles(Text)
    /\ NoEditAtAll(CanonicalizerRun(Text))

\* C2 - Block invariant.  Once the canonicalizer's edits are applied, the
\* main file compiles and every then-branch, else-branch, loop body and
\* case/default body in it is a block.
C2_BlockInvariant ==
    (CanonApplied /\ ~unreachable) => Compiles(Text) /\ AllBodiesAreBlocks(Text)

\* The bodies of text t that are neither a block nor empty and whose end
\* boundary is the token at L.
OpenedAt(t, L) ==
    {m \in Bodies(ParseTU(t)) :
        m.k \notin {"compound", "null"} /\ EndTokenLoc(t, m.e) = L}

\* The canonicalizer's run has ended, by onEndOfTranslationUnit or by an
\* abort.
CanonEnded == pass = "canonicalize" /\ pc \in {"apply", "exit"}

\* C3 - Shared end boundary.  When d bodies that are not blocks end at the
\* same boundary token, the canonicalizer holds d units of debt at that
\* location and its run ends with a single edit there: the token's text
\* followed by exactly d closing braces.
C3_SharedBoundary ==
    CanonEnded =>
        \A L \in 1..Len(input) :
            LET d == Cardinality(OpenedAt(input, L)) IN
            d > 0 =>
                /\ L \in DOMAIN CurlyBracesInsertedAtLocation
                /\ CurlyBracesInsertedAtLocation[L] = d
                /\ {R \in FileToReplacements[MainFile] : R.off = L}
                      = {Replacement(MainFile, L, 1, <<input[L]>> \o Braces(d))}

(***************************************************************************)
(* The instrumenter.                                                       *)
(***************************************************************************)

\* Where the call of marker n stands in the files on disk.
CallSites(n) ==
    {s \in UNION {{<<f, i>> : i \in 1..Len(disk[f])} : f \in DOMAIN disk} :
        disk[s[1]][s[2]] = MarkerCall(n)}

\* The markers that are forward-declared in the main file.
Declared == {n \in 0..Len(Text) : \E i \in 1..Len(Text) : Text[i] = MarkerDecl(n)}

\* The markers that are called somewhere in the files on disk.
Called == {n \in 0..Len(Text) : CallSites(n) # {}}

\* C4 - Probe conservation.  When an instrumentation run has ended, the
\* markers declared are the markers called, they are 0..N-1 for the
\* counter's N, and every one of them is called at exactly one site.
C4_ProbeConservation ==
    (Instrumented /\ ~unreachable) =>
        /\ Declared = 0..(NFunctionsInserted - 1)
        /\ Called = Declared
        /\ \A n \in Called : Cardinality(CallSites(n)) = 1

\* A file with no if, loop or switch construct.
Trivial(t) ==
    \A i \in 1..Len(t) : t[i] \notin {"if", "for", "while", "do", "switch"}

\* C5 - No-op on trivial input.  On a main file with no if, loop or switch
\* construct no step of the canonicalizer and no step of the instrumenter
\* records an edit or changes a file on disk, and the marker counter stays
\* 0.
C5_NoOpOnTrivialInput ==
    [][(Trivial(input) /\ pass \in {"canonicalize", "instrument"})
          => /\ disk' = disk
             /\ FileToReplacements' = NoEdits
             /\ CurlyBracesInsertedAtLocation' = NoBraces
             /\ NFunctionsInserted' = 0]_vars

\* Both passes have run over a trivial main file, one that holds blocks
\* and statements, and main has returned.
C5_Witness ==
    /\ Instrumented /\ Trivial(input)
    /\ \E i \in 3..Len(input) : IsLBrace(input[i])
    /\ disk[MainFile] = <<"static">> \o input

\* C6 - Entry probe.  In the instrumented translation unit every block that
\* is a then-branch, an else-branch, a loop body or a case/default body
\* starts with exactly one probe call, and no other block starts with a
\* probe call.
C6_EntryProbe ==
    (Instrumented /\ ~unreachable) =>
        LET tu == ParseTU(Unit) IN
        \A c \in {m \in Subtree(tu) : m.k = "compound"} :
            IF c \in Bodies(tu) THEN HasEntryProbe(c)
            ELSE Len(c.kids) >= 1 => c.kids[1].k # "call"

\* A probe call follows construct n: directly after its last token, or
\* after the ';' that directly follows that token; and only one does.
HasFallThroughProbe(t, n) ==
    LET Loc == EndTokenLoc(t, n.e) IN
    /\ IsMarkerCall(t, Tok(t, Loc + 1)) /\ Tok(t, Loc + 2) = ";"
    /\ ~IsMarkerCall(t, Tok(t, Loc + 3))

\* The instrumenter's run has ended, with main's return or by an abort.
InstrEnded == pc = "exit" /\ pass \in {"instrument", "done"} /\ Result \in {"0", "abort"}

\* C7 - Fall-through probe.  When the instrumenter's run has ended, an if,
\* for, while, do or switch construct of the main file is followed by a
\* fall-through probe exactly when a return statement is among its
\* descendants.
C7_FallThroughProbe ==
    InstrEnded =>
        \A n \in {m \in Subtree(ParseTU(Text)) : IsConstruct(m)} :
            HasReturnDesc(n) <=> HasFallThroughProbe(Text, n)

\* The last label of the fallthrough group that label n belongs to.
RECURSIVE LastLabel(_)
LastLabel(n) == IF IsLabel(n.kids[1]) THEN LastLabel(n.kids[1]) ELSE n

\* C8 - Fallthrough grouping.  In the instrumented translation unit a group
\* of two or more consecutive labels has one block, governed by the group's
\* last label, and that block starts with exactly one probe call; what the
\* earlier labels govern is the next label.
C8_FallthroughGrouping ==
    (Instrumented /\ ~unreachable) =>
        \A n \in {m \in Subtree(ParseTU(Unit)) : IsLabel(m) /\ IsLabel(m.kids[1])} :
            /\ LastLabel(n).kids[1].k = "compound"
            /\ HasEntryProbe(LastLabel(n).kids[1])

\* C9 - Every case/default body gets exactly one entry probe.  In the
\* instrumented translation unit what the last label of any fallthrough
\* group governs is a block that starts with exactly one probe call,
\* whatever the block holds.
C9_CaseBodyProbe ==
    (Instrumented /\ ~unreachable) =>
        \A n \in {m \in Subtree(ParseTU(Unit)) : IsLabel(m) /\ ~IsLabel(m.kids[1])} :
            /\ n.kids[1].k = "compound"
            /\ HasEntryProbe(n.kids[1])

(***************************************************************************)
(* Execution of the instrumented function.  A run is the sequence of its   *)
(* events: <<"probe", n>> for the call of marker n, <<"leave", b>> when    *)
(* the switch whose first token is b is left by a break or by falling off  *)
(* its end, <<"returned", b>> when a return inside it ends it.  Conditions *)
(* and switch values are arbitrary: every branch may be taken, every label *)
(* may be the one that matches.                                            *)
(***************************************************************************)

\* How often the body of a loop runs at most each time the loop is entered.
MaxIter == 1

\* The number of the marker called by token c.
MarkerId(t, c) == CHOOSE n \in 0..Len(t) : c = MarkerCall(n)

\* An outcome of executing a statement: the events, and how it ended:
\* "norm" past its end, "brk" by break, "ret" by return, or "seek" when the
\* label control jumps to is not in it.
Outcome(tr, ex) == [tr |-> tr, ex |-> ex]

\* The labels of the switch whose body is n: those not inside a nested
\* switch.
RECURSIVE OwnLabels(_)
OwnLabels(n) ==
    IF n.k = "switch" THEN {}
    ELSE (IF IsLabel(n) THEN {n} ELSE {})
         \cup UNION {OwnLabels(n.kids[i]) : i \in 1..Len(n.kids)}

RECURSIVE Exec(_, _, _)
RECURSIVE ExecSeq(_, _, _, _)
RECURSIVE Iterate(_, _, _)
RECURSIVE AfterBody(_, _, _, _)

\* The statements kids[i..] of a block, one after the other.  target is 0,
\* or the first token of the label that control is jumping to.
ExecSeq(t, kids, i, target) ==
    IF i > Len(kids) THEN {Outcome(<<>>, IF target = 0 THEN "norm" ELSE "seek")}
    ELSE UNION { CASE r.ex = "norm" ->
                        {Outcome(r.tr \o q.tr, q.ex) : q \in ExecSeq(t, kids, i + 1, 0)}
                   [] r.ex = "seek" -> ExecSeq(t, kids, i + 1, target)
                   [] OTHER -> {r}
                 : r \in Exec(t, kids[i], target) }

\* The loop n from its condition on, with k runs of the body left.
Iterate(t, n, k) ==
    {Outcome(<<>>, "norm")}
    \cup (IF k > 0 THEN AfterBody(t, n, k - 1, Exec(t, n.kids[1], 0)) ELSE {})

\* The loop n after a run of its body with outcomes R.
AfterBody(t, n, k, R) ==
    UNION { CASE r.ex = "norm" -> {Outcome(r.tr \o q.tr, q.ex) : q \in Iterate(t, n, k)}
              [] r.ex = "brk" -> {Outcome(r.tr, "norm")}
              [] OTHER -> {r}
            : r \in R }

\* Statement n, entered at its start (target = 0) or by a jump to the
\* label at target.
Exec(t, n, target) ==
    CASE n.k = "compound" -> ExecSeq(t, n.kids, 1, target)
      [] n.k = "if" ->
            IF target = 0
            THEN Exec(t, n.kids[1], 0)
                 \cup (IF Len(n.kids) = 2 THEN Exec(t, n.kids[2], 0)
                       ELSE {Outcome(<<>>, "norm")})
            ELSE LET th == Exec(t, n.kids[1], target) IN
                 IF Len(n.kids) = 1 \/ \E r \in th : r.ex # "seek" THEN th
                 ELSE Exec(t, n.kids[2], target)
      [] n.k \in {"for", "while"} ->
            IF target = 0 THEN Iterate(t, n, MaxIter)
            ELSE AfterBody(t, n, MaxIter, Exec(t, n.kids[1], target))
      [] n.k = "do" ->
            AfterBody(t, n, MaxIter, Exec(t, n.kids[1], target))
      [] IsLabel(n) ->
            Exec(t, n.kids[1], IF target = n.b THEN 0 ELSE target)
      [] n.k = "switch" ->
            IF target # 0 THEN {Outcome(<<>>, "seek")}
            ELSE LET Ls == OwnLabels(n.kids[1]) IN
                 { IF r.ex = "ret" THEN Outcome(r.tr \o <<<<"returned", n.b>>>>, "ret")
                   ELSE Outcome(r.tr \o <<<<"leave", n.b>>>>, "norm")
                   : r \in UNION {Exec(t, n.kids[1], L.b) : L \in Ls} }
                 \cup (IF \E L \in Ls : L.k = "default" THEN {}
                       ELSE {Outcome(<<<<"leave", n.b>>>>, "norm")})
      [] target # 0 -> {Outcome(<<>>, "seek")}
      [] n.k = "call" -> {Outcome(<<<<"probe", MarkerId(t, t[n.b])>>>>, "norm")}
      [] n.k = "return" -> {Outcome(<<>>, "ret")}
      [] n.k = "break" -> {Outcome(<<>>, "brk")}
      [] OTHER -> {Outcome(<<>>, "norm")}

\* The runs of the functions of translation unit t.
Runs(t) ==
    UNION { {r.tr : r \in Exec(t, d.kids[1], 0)}
            : d \in {m \in Subtree(ParseTU(t)) :
                        m.k \in {"fn", "main", "staticfn", "staticmain"}} }

\* The switch statements of t that have a return among their descendants.
ReturningSwitches(t) ==
    {m \in Subtree(ParseTU(t)) : m.k = "switch" /\ HasReturnDesc(m)}

\* The token after switch n and the ';' that may directly follow it.
TokenAfter(t, n) == Tok(t, EndTokenLoc(t, n.e) + 1)

\* The event of the probe placed after switch n.
ProbeAfter(t, n) == <<"probe", MarkerId(t, TokenAfter(t, n))>>

\* C10 - Switch-with-return.  An instrumented switch that has a return
\* among its descendants has a probe placed after it.  In every run of the
\* instrumented function, whenever the switch is left by a break or by
\* falling off its end, that probe is the next thing that happens; and once
\* a return inside the switch has ended it, that probe does not run.
C10_SwitchWithReturn ==
    Instrumented =>
        \A n \in ReturningSwitches(Unit) :
            /\ IsMarkerCall(Unit, TokenAfter(Unit, n))
            /\ \A tr \in Runs(Unit) : \A i \in 1..Len(tr) :
                  /\ tr[i] = <<"leave", n.b>> =>
                        i < Len(tr) /\ tr[i + 1] = ProbeAfter(Unit, n)
                  /\ tr[i] = <<"returned", n.b>> =>
                        \A j \in (i + 1)..Len(tr) : tr[j] # ProbeAfter(Unit, n)

\* An instrumented switch with a run that enters a case and leaves the
\* switch by break or by falling off its end, after which its probe runs,
\* and a run that returns from inside one of its cases.
C10_Witness ==
    /\ Instrumented
    /\ \E n \in ReturningSwitches(Unit) :
          /\ \E tr \in Runs(Unit) : \E i \in 2..(Len(tr) - 1) :
                /\ tr[i - 1][1] = "probe"
                /\ tr[i] = <<"leave", n.b>> /\ tr[i + 1] = ProbeAfter(Unit, n)
          /\ \E tr \in Runs(Unit) : \E i \in 1..Len(tr) :
                tr[i] = <<"returned", n.b>>
          /\ \E L \in OwnLabels(n.kids[1]) : HasReturnDesc(L)

(***************************************************************************)
(* Numbering, declarations and the driver.                                 *)
(***************************************************************************)

\* Tool.run of the "instrument" pass has ended and its edits are about to
\* be applied.
InstrRan == pass = "instrument" /\ pc = "apply"

RECURSIVE SitesFrom(_, _, _, _)
SitesFrom(t, st, ms, i) ==
    IF i > Len(ms) THEN <<>>
    ELSE LET nx == InstrRunOn(t, st, ms[i])
         IN (IF nx.n > st.n THEN <<ms[i]>> ELSE <<>>) \o SitesFrom(t, nx, ms, i + 1)

Sites(t) ==
    SitesFrom(t, InstrState(NoEdits, 0, FALSE),
              MatchSequence("instrument", ParseTU(t)), 1)

\* The marker given to site m.
IdOf(A, m) == (CHOOSE i \in 1..Len(A) : A[i] = m) - 1

\* The markers of the probes of node n itself, in the order then-branch
\* entry, else-branch or loop-body entry, case body entry, fall-through.
OwnIds(A, n) ==
    LET own == SelectSeq(InstrMatchers(n), LAMBDA m : \E i \in 1..Len(A) : A[i] = m)
    IN [i \in 1..Len(own) |-> IdOf(A, own[i])]

IdSet(A, n) == {OwnIds(A, n)[i] : i \in 1..Len(OwnIds(A, n))}

\* The markers of the probes of the nodes strictly inside n.
NestedIds(A, n) == UNION {IdSet(A, m) : m \in Subtree(n) \ {n}}

\* Every probe of a construct has a smaller marker than every probe nested
\* inside the construct, and the probes of one construct are numbered
\* consecutively in the order then, else or loop body, fall-through.
OwnBeforeNested(A, tu) ==
    \A n \in Subtree(tu) :
        /\ \A i \in 1..(Len(OwnIds(A, n)) - 1) : OwnIds(A, n)[i + 1] = OwnIds(A, n)[i] + 1
        /\ \A a \in IdSet(A, n) : \A b \in NestedIds(A, n) : a < b

\* The pairs of an earlier and a later child of one node.
SiblingPairs(tu) ==
    UNION {{<<q.kids[i], q.kids[j]>> :
               <<i, j>> \in {x \in (1..Len(q.kids)) \X (1..Len(q.kids)) : x[1] < x[2]}} :
           q \in Subtree(tu)}

\* The token at which the probe of site m is put.
SiteLoc(t, m) ==
    CASE m.id = "cstmt" -> m.n.b
      [] m.id = "switch_case" -> m.n.kids[1].b
      [] OTHER -> EndTokenLoc(t, m.n.e)

\* The markers of the sites are the markers in the edits: when no add
\* failed, the edit recorded at a site of the main file calls the site's
\* marker.
EditsCarryIds(A) ==
    ~unreachable =>
        \A k \in 1..Len(A) :
            GetSpellingLoc(Text, SiteLoc(Text, A[k])).f = MainFile =>
                \E R \in FileToReplacements[MainFile] :
                    /\ R.off = SiteLoc(Text, A[k])
                    /\ \E x \in 1..Len(R.text) : R.text[x] = MarkerCall(k - 1)

\* C12 - Numbering order, as claimed.  When a run of the instrumenter has
\* ended, it has given out the markers 0 .. NFunctionsInserted - 1 such
\* that the probes of one construct (then-branch entry, else-branch or
\* loop-body entry, fall-through) have consecutive increasing markers, all
\* smaller than the marker of any probe nested inside the construct, and
\* every probe of an earlier sibling or nested inside it has a smaller
\* marker than any probe of a later sibling.
C12_NumberingOrder ==
    InstrRan =>
        LET A == Sites(Text)  tu == ParseTU(Text) IN
        /\ NFunctionsInserted = Len(A) /\ EditsCarryIds(A)
        /\ OwnBeforeNested(A, tu)
        /\ \A pr \in SiblingPairs(tu) :
              \A a \in IdSet(A, pr[1]) \cup NestedIds(A, pr[1]) :
                  \A b \in IdSet(A, pr[2]) : a < b

\* C12 - Numbering order, as the code and its tests have it.  As above,
\* but between siblings: the probes of an earlier sibling have smaller
\* markers than those of a later sibling, and the probes of all the siblings
\* have smaller markers than any probe nested inside one of them.
C12_NumberingOrderAsPinned ==
    InstrRan =>
        LET A == Sites(Text)  tu == ParseTU(Text) IN
        /\ NFunctionsInserted = Len(A) /\ EditsCarryIds(A)
        /\ OwnBeforeNested(A, tu)
        /\ \A pr \in SiblingPairs(tu) :
              /\ \A a \in IdSet(A, pr[1]) : \A b \in IdSet(A, pr[2]) : a < b
              /\ \A a \in IdSet(A, pr[1]) \cup IdSet(A, pr[2]) :
                    \A b \in NestedIds(A, pr[1]) \cup NestedIds(A, pr[2]) : a < b

\* A run has ended on a file in which a construct with three probes of its
\* own has a later sibling with a probe, and a probe nested inside it that
\* was numbered after the sibling's.
C12_Witness ==
    /\ InstrRan
    /\ LET A == Sites(Text) IN
       \E pr \in SiblingPairs(ParseTU(Text)) :
          /\ IsConstruct(pr[1]) /\ IsConstruct(pr[2])
          /\ \E a \in IdSet(A, pr[2]) : \E b \in NestedIds(A, pr[1]) : a < b
          /\ \E q \in Subtree(pr[1]) : Len(OwnIds(A, q)) = 3

\* Site m was given a marker.
HasSite(A, m) == \E i \in 1..Len(A) : A[i] = m

\* The labels of switch n whose bodies were given an entry probe: those
\* that are statements of the switch's block, and those nested under a
\* preceding label (the last labels of fallthrough groups).
DirectLabels(A, n) ==
    {L \in OwnLabels(n.kids[1]) :
        /\ HasSite(A, Bound("switch_case", L))
        /\ \E i \in 1..Len(n.kids[1].kids) : n.kids[1].kids[i] = L}

GroupLabels(A, n) ==
    {L \in OwnLabels(n.kids[1]) :
        /\ HasSite(A, Bound("switch_case", L))
        /\ \E G \in OwnLabels(n.kids[1]) : G # L /\ L \in Subtree(G)}

FallThroughSite(n) == Bound("stmt_with_return_descendant", n)

\* C13 - Numbering inside a switch.  When a run of the instrumenter has
\* ended, for every switch that was given a fall-through probe: that probe
\* has a smaller marker than every case/default entry probe of the switch;
\* the entry probes of the labels that are statements of the switch's block
\* come after it with markers increasing in source order; and the entry
\* probe of a body reached through a fallthrough group has a larger marker
\* than all of those, wherever the group stands in the source.
C13_SwitchNumbering ==
    InstrRan =>
        LET A == Sites(Text) IN
        /\ EditsCarryIds(A)
        /\ \A n \in {m \in Subtree(ParseTU(Text)) :
                       m.k = "switch" /\ HasSite(A, FallThroughSite(m))} :
              /\ \A L \in DirectLabels(A, n) \cup GroupLabels(A, n) :
                    IdOf(A, FallThroughSite(n)) < IdOf(A, Bound("switch_case", L))
              /\ \A L1, L2 \in DirectLabels(A, n) :
                    L1.b < L2.b =>
                        IdOf(A, Bound("switch_case", L1)) < IdOf(A, Bound("switch_case", L2))
              /\ \A L \in DirectLabels(A, n) : \A G \in GroupLabels(A, n) :
                    IdOf(A, Bound("switch_case", L)) < IdOf(A, Bound("switch_case", G))

\* A run has ended on a switch with a fall-through probe, two labelled
\* bodies that are statements of its block, and before them in the source a
\* fallthrough group whose body was numbered after theirs.
C13_Witness ==
    /\ InstrRan /\ ~unreachable
    /\ LET A == Sites(Text) IN
       \E n \in Subtree(ParseTU(Text)) :
          /\ n.k = "switch" /\ HasSite(A, FallThroughSite(n))
          /\ \E L1, L2 \in DirectLabels(A, n) : \E G \in GroupLabels(A, n) :
                /\ G.b < L1.b /\ L1.b < L2.b
                /\ IdOf(A, Bound("switch_case", L2)) < IdOf(A, Bound("switch_case", G))

\* The tokens an edit of the instrumenter may hold: tokens of the text it
\* edits, marker calls with their ';', and marker declarations.
ProbeOrOriginal(t, c) ==
    \/ \E i \in 1..Len(t) : TokenText(t, i) = <<c>>
    \/ c \in {"{", ";"}
    \/ \E k \in 0..(NFunctionsInserted - 1) : c \in {MarkerCall(k), MarkerDecl(k)}

\* C14 - Forward declarations.  When a run of the instrumenter that gave
\* out N > 0 markers has ended, exactly one edit is recorded at the first
\* token of the main file, and its text is the declarations of markers
\* 0 .. N-1 in ascending order followed by that token; no edit of the run
\* inserts anything but original tokens, marker calls and marker
\* declarations, so no marker is defined; and the file main writes starts
\* with exactly these N declarations, followed by the rest of the file.
C14_ForwardDeclarations ==
    /\ (InstrRan /\ NFunctionsInserted > 0) =>
          /\ Cardinality({R \in FileToReplacements[MainFile] : R.off = 1}) = 1
          /\ \A R \in FileToReplacements[MainFile] :
                R.off = 1 =>
                    /\ R.len = 1
                    /\ R.text = MarkerDecls(0, NFunctionsInserted) \o TokenText(Text, 1)
          /\ \A f \in DOMAIN FileToReplacements : \A R \in FileToReplacements[f] :
                \A x \in 1..Len(R.text) : ProbeOrOriginal(Text, R.text[x])
    /\ (Instrumented /\ NFunctionsInserted > 0) =>
          /\ \A i \in 1..NFunctionsInserted : Text[i] = MarkerDecl(i - 1)
          /\ \A i \in (NFunctionsInserted + 1)..Len(Text) : ~IsMarkerDecl(Text, Text[i])
          /\ Len(Text) > NFunctionsInserted

\* main has written a file for which three or more markers were given out.
C14_Witness ==
    /\ Instrumented /\ NFunctionsInserted >= 3
    /\ Text[1] = MarkerDecl(0) /\ Text[3] = MarkerDecl(2)
    /\ \E i \in 1..Len(Text) : Text[i] = MarkerCall(2)

\* No edit set holds two edits that overlap.
NoOverlappingEdits ==
    \A f \in DOMAIN FileToReplacements :
        \A R1, R2 \in FileToReplacements[f] : R1 # R2 => ~Overlap(R1, R2)

\* C15 - Ledger conflict is fatal.  No edit set ever holds two overlapping
\* edits; a run never goes on after an edit was refused for overlapping a
\* recorded one; and once an edit was refused no file is written.
C15_ConflictIsFatal ==
    [][/\ NoOverlappingEdits'
       /\ ~unreachable'
       /\ unreachable => disk' = disk]_vars

\* C16 - Flush is all-or-nothing within one pass.  The files change only in
\* a step that ends a pass whose tool ran over a file that compiles and made
\* all its callbacks; that step applies every replacement collected for
\* every file and does not end the pass with a non-zero result; and a step
\* in which a pass returns non-zero, or the run aborts, leaves every file as
\* it was.
C16_FlushAllOrNothing ==
    [][/\ disk' # disk =>
             /\ pc = "apply" /\ todo = <<>> /\ Compiles(Text)
             /\ Result' \in {"running", "0"}
             /\ \A f \in DOMAIN disk :
                   disk'[f] = applyAllReplacements(disk[f], FileToReplacements[f])
       /\ (Result' \in {"1", "abort"} /\ Result = "running") =>
             disk' = disk /\ pc' = "exit"]_vars

\* The canonicalize pass has returned non-zero when applying its
\* replacements failed: edits for the main file were collected, and the file
\* is as the driver found it.
C16_Witness ==
    /\ pc = "exit" /\ Result = "1" /\ pass = "canonicalize"
    /\ todo = <<>> /\ ast # NoNode
    /\ FileToReplacements[MainFile] # {}
    /\ Text = input

\* C17 - No partial-instrumentation output.  When main has ended, either it
\* returned 0 after all three passes wrote the file, or the main file is as
\* the driver found it.
C17_NoPartialOutput ==
    pc = "exit" => (Result = "0" /\ pass = "done") \/ Text = input

\* C18 - Pass ordering.  The driver starts in the canonicalize pass.  The
\* pass changes only from canonicalize to makeGlobalsStatic, from there to
\* instrument and from there to the end, and only in the step that writes
\* the files of a pass that has not failed; while a tool runs, the files
\* stay as they were when the pass started and the tool works on the tree
\* of that text; and once a pass has returned non-zero or the run has
\* aborted, nothing happens any more: no later pass is started.
C18_PassOrdering ==
    /\ pass = "canonicalize" /\ pc = "applyTool"
    /\ [][/\ pass' # pass =>
                /\ <<pass, pass'>> \in {<<"canonicalize", "makeGlobalsStatic">>,
                                        <<"makeGlobalsStatic", "instrument">>,
                                        <<"instrument", "done">>}
                /\ pc = "apply" /\ Result = "running" /\ Result' \in {"running", "0"}
                /\ disk' = [f \in DOMAIN disk |->
                              applyAllReplacements(disk[f], FileToReplacements[f])]
                /\ pc' = IF pass' = "done" THEN "exit" ELSE "applyTool"
          /\ pc' = "run" => disk' = disk /\ ast' = ParseTU(Text) /\ pass' = pass
          /\ pc = "applyTool" => pc' \in {"run", "exit"} /\ disk' = disk
          /\ Result' \in {"1", "abort"} => pass' = pass /\ pc' = "exit"
          /\ Result # "running" => UNCHANGED vars]_vars

\* The third pass runs on a text that the two passes before it rewrote:
\* the first added braces, the second `static`.
C18_Witness ==
    /\ pass = "instrument" /\ pc = "run" /\ Result = "running"
    /\ Text # input /\ Text[1] = "static"
    /\ Len(Text) >= Len(input) + 3

\* Tool.run of the "makeGlobalsStatic" pass has ended.
StaticRan == pass = "makeGlobalsStatic" /\ pc = "apply"

\* The top-level declarations of text t.
Decls(t) == {ParseTU(t).kids[i] : i \in 1..Len(ParseTU(t).kids)}

\* The global variable definitions and function definitions that are not
\* static, main apart.
Promoted(t) == {d \in Decls(t) : d.k \in {"var", "fn"}}

\* C19 - Promote-to-internal-linkage pass.  When a run of the pass has
\* ended, every global variable definition and every function definition
\* of the main file that is not static, main apart, has exactly one edit:
\* its first token is replaced by `static` and that token; there is no other
\* edit, so no declaration that is static and no main has one; and a run of
\* the pass over the file the pass has written records no edit.
C19_PromoteToStatic ==
    /\ StaticRan =>
          /\ FileToReplacements[MainFile] =
                {Replacement(MainFile, d.b, 1, <<"static", Text[d.b]>>) : d \in Promoted(Text)}
          /\ Cardinality(FileToReplacements[MainFile]) = Cardinality(Promoted(Text))
          /\ \A f \in DOMAIN FileToReplacements \ {MainFile} : FileToReplacements[f] = {}
    /\ (pass = "instrument" /\ pc = "applyTool") =>
          /\ GlobalStaticRun(Text) = [ftr |-> NoEdits, die |-> FALSE]
          /\ Compiles(Text) => Promoted(Text) = {}

\* The pass has written a file in which it made a function static and
\* left alone main and a function that was static.
C19_Witness ==
    /\ pass = "instrument" /\ pc = "applyTool"
    /\ Cardinality(Promoted(input)) >= 1
    /\ \E d \in Decls(input) : d.k = "main"
    /\ \E d \in Decls(input) : d.k = "staticfn"
    /\ \E d \in Decls(Text) : d.k = "main"
    /\ Cardinality({d \in Decls(Text) : d.k = "staticfn"}) = 2

\* C20 - Marker counter is scoped to one translation unit.  In a run of
\* the driver on two files: when the instrumenter starts on the second
\* unit its counter is 0; and when its run has ended, the edits recorded
\* for each file (the probes with their markers, and the declarations) are
\* those of a run of a fresh instrumenter over that file alone.
C20_CounterPerUnit ==
    /\ (pass = "instrument" /\ pc = "run2" /\ todo = MatchSequence(pass, ast)) =>
          NFunctionsInserted = 0
    /\ InstrRan =>
          /\ FileToReplacements[MainFile] = InstrumenterRun(disk[MainFile]).ftr[MainFile]
          /\ SwapEdits(FileToReplacements)[MainFile] =
                InstrumenterRun(disk[SecondFile]).ftr[MainFile]

(***************************************************************************)
(* The canonicalizer's edits.                                              *)
(***************************************************************************)

\* The statement a callback of the canonicalizer is about: the bound
\* statement, or what the bound label governs.
BodyOfMatch(m) == IF m.id = "switch_case" THEN m.n.kids[1] ELSE m.n

\* The canonicalizer makes a callback in this step and goes on.
CanonStep == pc = "run" /\ pass = "canonicalize" /\ todo # <<>>

\* The edit that puts "{}" in place of the ';' at loc.
EmptyBlockEdit(loc) == Replacement(MainFile, loc, 1, <<"{", "}">>)

\* C21 - Empty-statement body.  A callback of the canonicalizer for a body
\* that is a bare ';' cannot fail; it records exactly one new edit, which
\* replaces that ';' by "{}", and leaves the brace debt as it was.  When
\* the pass has written the file, `if ;`, `for ;` and `do ; while ;` have
\* become `if { }`, `for { }` and `do { } while ;`.
C21_EmptyBody ==
    /\ [][(CanonStep /\ BodyOfMatch(Head(todo)).k = "null") =>
             /\ Result' = "running" /\ ~unreachable'
             /\ EmptyBlockEdit(BodyOfMatch(Head(todo)).b) \notin FileToReplacements[MainFile]
             /\ FileToReplacements' =
                   [FileToReplacements EXCEPT ![MainFile] =
                       @ \cup {EmptyBlockEdit(BodyOfMatch(Head(todo)).b)}]
             /\ CurlyBracesInsertedAtLocation' = CurlyBracesInsertedAtLocation]_vars
    /\ [](CanonApplied =>
             \A h \in {"if", "for", "do"} : \A tl \in Tails :
                 input = FunctionOf(Wrap(h, <<";">>) \o tl) =>
                     Text = FunctionOf(Wrap(h, <<"{", "}">>) \o tl))

\* The pass has written `do { } while ;` for `do ; while ;`.
C21_Witness ==
    /\ CanonApplied
    /\ input = FunctionOf(Wrap("do", <<";">>))
    /\ Text = FunctionOf(Wrap("do", <<"{", "}">>))

\* The body a canonicalizer callback is about to handle is neither a block
\* nor an empty statement.
PlainBody(n) == ~IsCompoundStmt(n) /\ ~IsNullStmt(n)

\* C22: End boundary rule.  For a body that is neither a block nor an empty
\* statement the closing-brace debt is registered at the ';' that directly
\* follows the body's last token when there is one, and at the body's last
\* token otherwise, so that the brace is written between that token and the
\* next one; the body of `do a = 1; while ;` gets its closing brace after
\* its ';' and before `while`, and a body that ends in '}' gets it right after
\* that '}'.
C22_EndBoundary ==
    /\ [][(CanonStep /\ PlainBody(BodyOfMatch(Head(todo)))) =>
             LET e == BodyOfMatch(Head(todo)).e
                 boundary == IF Tok(Text, e + 1) = ";" THEN e + 1 ELSE e
             IN  CurlyBracesInsertedAtLocation'
                    = AddBrace(CurlyBracesInsertedAtLocation, boundary)]_vars
    /\ [](CanonApplied =>
             /\ \A tl \in Tails :
                   input = FunctionOf(Wrap("do", ExprStmt) \o tl)
                      => Text = FunctionOf(Wrap("do", <<"{">> \o ExprStmt \o <<"}">>)
                                              \o tl)
             /\ input = FunctionOf(Wrap("for", Wrap("block", ExprStmt)))
                   => Text = input
             /\ input = FunctionOf(Wrap("if", Wrap("for", Wrap("block", ExprStmt))))
                   => Text = FunctionOf(Wrap("if", Wrap("block",
                                 Wrap("for", Wrap("block", ExprStmt))))))

\* The do-while loop with a one-statement body has been canonicalized and
\* written: its closing brace is between the body's ';' and `while`.
C22_Witness ==
    /\ CanonApplied
    /\ input = FunctionOf(Wrap("do", ExprStmt))
    /\ Text = <<"fn", "{", "do", "{", "a", "=", "1", ";", "}", "while", ";", "}">>

(***************************************************************************)
(* What a case/default label governs.                                      *)
(***************************************************************************)

\* The first token after the run of statements that starts at token i: the
\* next label, or the closing brace of the switch body.
RECURSIVE RunNext(_, _)
RunNext(t, i) ==
    IF Tok(t, i) \in {"case", "default", "}", "<eof>"} THEN i
    ELSE LET s == ParseStmt(t, i) IN IF s.ok THEN RunNext(t, s.nx) ELSE i

\* A canonicalizer callback for a label whose attached statement is neither
\* a block nor an empty statement is about to be made.
LabelStep ==
    /\ CanonStep /\ Head(todo).id = "switch_case"
    /\ PlainBody(Head(todo).n.kids[1])

\* C23, as the spec states it: the block made for a case/default label
\* encloses the whole run of statements after the label, up to the next
\* label or the closing brace of the switch: the block's closing brace is
\* registered at the last token of that run.
C23_CaseBodyIsWholeRun ==
    [][LabelStep =>
          CurlyBracesInsertedAtLocation'
             = AddBrace(CurlyBracesInsertedAtLocation,
                        RunNext(Text, Head(todo).n.kids[1].nx) - 1)]_vars

\* C23, amended: the block made for a case/default label encloses the one
\* statement attached to the label, and with it a ';' that directly follows
\* a statement not ending in one; the closing brace is registered inside or
\* right after that statement whatever follows it in the run, and the
\* opening brace at its first token.
C23_CaseBodyIsAttachedStmt ==
    [][LabelStep =>
          LET sub == Head(todo).n.kids[1] IN
          /\ \E loc \in {sub.nx - 1, sub.nx} :
                /\ CurlyBracesInsertedAtLocation'
                      = AddBrace(CurlyBracesInsertedAtLocation, loc)
                /\ loc = sub.nx => Tok(Text, loc) = ";" /\ Tok(Text, sub.e) = "}"
          /\ \/ Replacement(MainFile, sub.b, 1, <<"{", Tok(Text, sub.b)>>)
                   \in FileToReplacements'[MainFile]
             \/ Result' = "abort" \/ unreachable']_vars

\* The block of a label followed by two statements has been registered: its
\* closing brace is due before the second statement, `break;`.
C23_Witness ==
    /\ pass = "canonicalize" /\ pc = "run" /\ todo = <<>>
    /\ input = FunctionOf(<<"switch", "{", "case">> \o ExprStmt \o BreakStmt \o <<"}">>)
    /\ CurlyBracesInsertedAtLocation = [l \in {9} |-> 1]
    /\ RunNext(Text, 10) = 12

\* The label of the callback about to be made is followed by several
\* statements: its run goes on after the statement attached to it.
SeveralStmts == RunNext(Text, Head(todo).n.kids[1].nx) > Head(todo).n.kids[1].nx

\* The statement attached to the label does not end in a ';' of its own and
\* the next statement of the run is an empty statement.
EmptyStmtFollows ==
    LET sub == Head(todo).n.kids[1] IN
    sub.e = sub.nx - 1 /\ Tok(Text, sub.nx) = ";"

CaseWithBreak == <<"switch", "{", "case">> \o ExprStmt \o BreakStmt \o <<"}">>

CaseWithBreakCanon ==
    <<"switch", "{", "case", "{">> \o ExprStmt \o <<"}">> \o BreakStmt \o <<"}">>

CaseWithBreakInstr ==
    <<"switch", "{", "case", "{", MarkerCall(0), ";">> \o ExprStmt \o <<"}">>
       \o BreakStmt \o <<"}">>

\* C24, as stated: for a label followed by several statements only the
\* statement attached to the label is put in a block, the closing brace is
\* registered before the first token of the statement after it, so that every
\* later statement of the run stays outside; `case a = 1; break;` becomes
\* `case { a = 1; } break;` and the entry probe goes into that block.
C24_CaseWrapsFirstOnly ==
    /\ [][(LabelStep /\ SeveralStmts) =>
             CurlyBracesInsertedAtLocation'
                = AddBrace(CurlyBracesInsertedAtLocation,
                           Head(todo).n.kids[1].nx - 1)]_vars
    /\ [](CanonApplied => \A tl \in Tails :
             input = FunctionOf(CaseWithBreak \o tl)
                => Text = FunctionOf(CaseWithBreakCanon \o tl))
    /\ [](Instrumented => \A tl \in Tails :
             input = FunctionOf(CaseWithBreak \o tl)
                => Text = <<MarkerDecl(0), "static">>
                             \o FunctionOf(CaseWithBreakInstr \o tl))

\* C24, amended: as stated, unless the statement attached to the label ends
\* in '}' and an empty statement ';' follows it directly; that ';' is taken
\* into the block, the statements after it stay outside.
C24_CaseWrapsFirstAndSemi ==
    /\ [][(LabelStep /\ SeveralStmts) =>
             CurlyBracesInsertedAtLocation'
                = AddBrace(CurlyBracesInsertedAtLocation,
                           IF EmptyStmtFollows THEN Head(todo).n.kids[1].nx
                           ELSE Head(todo).n.kids[1].nx - 1)]_vars
    /\ [](CanonApplied => \A tl \in Tails :
             input = FunctionOf(CaseWithBreak \o tl)
                => Text = FunctionOf(CaseWithBreakCanon \o tl))
    /\ [](Instrumented => \A tl \in Tails :
             input = FunctionOf(CaseWithBreak \o tl)
                => Text = <<MarkerDecl(0), "static">>
                             \o FunctionOf(CaseWithBreakInstr \o tl))
    /\ [](CanonApplied => \A s \in LabelRuns :
             input = FunctionOf(s)
                => Text = FunctionOf(<<"switch", "{", "case", "{">>
                             \o Wrap("if", Wrap("block", ExprStmt))
                             \o <<";", "}">> \o BreakStmt \o <<"}">>))

\* `case a = 1; break;` has been canonicalized and instrumented: the block
\* holds the probe and `a = 1;`, and `break;` follows the block.
C24_Witness ==
    /\ Instrumented
    /\ input = FunctionOf(CaseWithBreak)
    /\ Text = <<MarkerDecl(0), "static">> \o FunctionOf(CaseWithBreakInstr)

(***************************************************************************)
(* Where edits are recorded.                                               *)
(***************************************************************************)

\* The first and the last token of n are written in different files or
\* belong to different macro expansions.
CrossBoundary(t, n) ==
    \/ GetSpellingLoc(t, n.b).f # GetSpellingLoc(t, n.e).f
    \/ GetDecomposedFile(t, n.b) # GetDecomposedFile(t, n.e)

\* A callback for a body is about to be made: by the canonicalizer, or by
\* the instrumenter for an entry probe site.
BodyStep ==
    /\ pc = "run" /\ pass \in {"canonicalize", "instrument"} /\ todo # <<>>
    /\ Head(todo).id \in {"stmt", "cstmt", "switch_case"}

\* C25: a cross-boundary body is skipped as a whole.  When the first and the
\* last token of a body resolve to different files or macro expansions, the
\* callback for it records no edit, registers no closing brace, allocates no
\* marker id and does not end the run.
C25_CrossBoundarySkipped ==
    [][(BodyStep /\ CrossBoundary(Text, BodyOfMatch(Head(todo)))) =>
          /\ FileToReplacements' = FileToReplacements
          /\ CurlyBracesInsertedAtLocation' = CurlyBracesInsertedAtLocation
          /\ NFunctionsInserted' = NFunctionsInserted
          /\ Result' = "running" /\ unreachable' = unreachable]_vars

\* Tool.run of the "canonicalize" pass has ended.
CanonRan == pass = "canonicalize" /\ pc = "apply"

\* C26: brace debt is flushed exactly once per location.  In a run of the
\* driver on two files: when the canonicalizer starts on the second unit its
\* ledger holds no debt of the first; and when its run has ended, the edits
\* recorded for each file are those of a run of a fresh canonicalizer over
\* that file alone, one closing edit for each location with debt.
C26_DebtFlushedOnce ==
    /\ (pass = "canonicalize" /\ pc = "run2" /\ todo = MatchSequence(pass, ast)) =>
          CurlyBracesInsertedAtLocation = NoBraces
    /\ CanonRan =>
          /\ FileToReplacements[MainFile] = CanonicalizerRun(disk[MainFile]).ftr[MainFile]
          /\ SwapEdits(FileToReplacements)[MainFile] =
                CanonicalizerRun(disk[SecondFile]).ftr[MainFile]

(***************************************************************************)
(* The shape of the edits.                                                 *)
(***************************************************************************)

\* The token edit R replaces, in the file R is recorded for; outside any
\* file it is the token the command-line macro stands for.
OriginalToken(R) ==
    CASE R.path = MainFile -> Tok(Text, R.off)
      [] R.path = HeaderFile -> Tok(disk[HeaderFile], R.off)
      [] OTHER -> Head(Preprocess(<<"LBC">>, disk[HeaderFile]))

\* Text t without the tokens at the offsets in S.
RECURSIVE DropAt(_, _, _)
DropAt(t, S, i) ==
    IF i > Len(t) THEN <<>>
    ELSE (IF i \in S THEN <<>> ELSE <<t[i]>>) \o DropAt(t, S, i + 1)

\* Text t without braces.
DropBraces(t) == DropAt(t, {i \in 1..Len(t) : t[i] \in {"{", "}"}}, 1)

\* Text t without probe calls, each with its ';', and without forward
\* declarations of markers.
DropProbes(t) ==
    DropAt(t, {i \in 1..Len(t) :
                  \/ IsMarkerCall(t, t[i]) \/ IsMarkerDecl(t, t[i])
                  \/ i > 1 /\ IsMarkerCall(t, t[i - 1]) /\ t[i] = ";"}, 1)

\* The empty statements the recorded edits replace by "{}".
EmptyBodies == {R.off : R \in {Q \in FileToReplacements[MainFile] : Q.text = <<"{", "}">>}}

\* C27: edits are purely additive and token-aligned.  While a tool runs,
\* every recorded edit replaces exactly one token and its text holds that
\* token, but for a ';' replaced by "{}"; and when the edits are written,
\* the canonicalizer's output without braces is its input without braces
\* (a ';' that became "{}" left aside), and the instrumenter's output
\* without probe calls and forward declarations is its input, in the main
\* file and in the header.
C27_AdditiveEdits ==
    /\ [](pc \in {"run", "apply"} =>
            \A f \in DOMAIN FileToReplacements : \A R \in FileToReplacements[f] :
               /\ R.path = f /\ R.len = 1
               /\ \/ \E i \in 1..Len(R.text) : R.text[i] = OriginalToken(R)
                  \/ OriginalToken(R) = ";" /\ R.text = <<"{", "}">>)
    /\ [][(pc = "apply" /\ disk' # disk) =>
             /\ pass = "canonicalize" =>
                   /\ DropBraces(Text') = DropBraces(DropAt(Text, EmptyBodies, 1))
                   /\ disk'[HeaderFile] = disk[HeaderFile]
             /\ pass = "instrument" =>
                   /\ DropProbes(Text') = Text
                   /\ DropProbes(disk'[HeaderFile]) = disk[HeaderFile]]_vars

\* The canonicalizer's edits for an if with an empty then-branch and an
\* else-branch that is not a block have been written: braces have been
\* added, and the text without them is the input without the replaced ';'.
C27_Witness ==
    /\ CanonApplied
    /\ input = FunctionOf(Wrap("ifelse", <<";">>))
    /\ Text = FunctionOf(<<"if", "{", "}", "else", "{">> \o ExprStmt \o <<"}">>)
    /\ DropBraces(Text) = <<"fn", "if", "else">> \o ExprStmt

\* How many tokens c the texts of the edits in S hold.
RECURSIVE Inserted(_, _)
Inserted(S, c) ==
    IF S = {} THEN 0
    ELSE LET R == CHOOSE Q \in S : TRUE IN
         Cardinality({i \in 1..Len(R.text) : R.text[i] = c}) + Inserted(S \ {R}, c)

\* C28: brace balance.  When a run of the canonicalizer has ended, the
\* edits recorded for each file insert as many opening braces as closing
\* braces.
C28_BraceBalance ==
    CanonRan =>
        \A f \in DOMAIN FileToReplacements :
            Inserted(FileToReplacements[f], "{") = Inserted(FileToReplacements[f], "}")

\* C29: edits stay in the main file.  Every edit a tool records is recorded
\* for the main file of the unit; the edit sets of the header and of the
\* path of a location outside any file stay empty.
C29_EditsInMainFile ==
    \A f \in DOMAIN FileToReplacements :
        \A R \in FileToReplacements[f] : f = MainFile /\ R.path = MainFile

(***************************************************************************)
(* The call chain checker: ccc::callChainExists and the main that calls    *)
(* it.  In these runs `input` holds what main hands to callChainExists     *)
(* (the calls Tool.run collected and the options -from and -to), `disk`    *)
(* the two output streams and `Result` what callChainExists returned.      *)
(***************************************************************************)

\* How many calls the collected list holds at most.
MaxCalls == 2

\* The functions of the translation unit, and a name that is none of them.
Functions == {"f", "g", "h"}

NoFunction == "k"

CallPair(Caller, Callee) == [Caller |-> Caller, Callee |-> Callee]

CallLists ==
    UNION {[1..n -> {CallPair(a, b) : a \in Functions, b \in Functions}] :
              n \in 0..MaxCalls}

\* The static call graph under construction: FunctionToIdx, idx, the number
\* of vertices of SCG and its edges.
CallGraph(FunctionToIdx, idx, n, edges) ==
    [FunctionToIdx |-> FunctionToIdx, idx |-> idx, n |-> n, edges |-> edges]

\* if (not FunctionToIdx.count(F)) { SCG.added_vertex(idx);
\* FunctionToIdx[F] = idx++; }: added_vertex is the hook of a graph without
\* vertex names and does nothing, the graph does not grow here.
Register(g, F) ==
    IF F \in DOMAIN g.FunctionToIdx THEN g
    ELSE CallGraph([x \in DOMAIN g.FunctionToIdx \cup {F} |->
                       IF x = F THEN g.idx ELSE g.FunctionToIdx[x]],
                   g.idx + 1, g.n, g.edges)

Max(a, b) == IF a >= b THEN a ELSE b

\* A faulty variant of add_edge, which C30 tells from it: the edge is put in
\* from callee to caller.
add_edge_reversed(u, v, g) ==
    CallGraph(g.FunctionToIdx, g.idx, Max(g.n, Max(u, v) + 1), g.edges \cup {<<v, u>>})

\* boost::add_edge(u, v, SCG) on a graph with a vector of vertices: the
\* vector grows to hold u and v.
add_edge(u, v, g) ==
    CallGraph(g.FunctionToIdx, g.idx, Max(g.n, Max(u, v) + 1), g.edges \cup {<<u, v>>})

\* The loop over Calls, from element i on.
RECURSIVE AddCalls(_, _, _)
AddCalls(Calls, i, g) ==
    IF i > Len(Calls) THEN g
    ELSE LET g1 == Register(g, Calls[i].Caller)
             g2 == Register(g1, Calls[i].Callee)
         IN AddCalls(Calls, i + 1,
                     add_edge(g2.FunctionToIdx[Calls[i].Caller],
                              g2.FunctionToIdx[Calls[i].Callee], g2))

\* The vertices in S, ascending: the order of a vertex's out-edge list does
\* not change which vertices end up black.
RECURSIVE Ascending(_)
Ascending(S) ==
    IF S = {} THEN <<>>
    ELSE LET m == CHOOSE x \in S : \A y \in S : x <= y IN <<m>> \o Ascending(S \ {m})

\* The loop of boost::breadth_first_search: the head of the queue is taken,
\* its white successors turn gray and are queued, and it turns black.
RECURSIVE BFSLoop(_, _, _)
BFSLoop(g, Q, Colors) ==
    IF Q = <<>> THEN Colors
    ELSE LET u == Head(Q)
             white == {v \in 0..(g.n - 1) : <<u, v>> \in g.edges /\ Colors[v] = "white"}
         IN BFSLoop(g, Tail(Q) \o Ascending(white),
                    [v \in 0..(g.n - 1) |->
                        IF v = u THEN "black"
                        ELSE IF v \in white THEN "gray" ELSE Colors[v]])

\* boost::breadth_first_search(SCG, s, color_map(ColorMap)): every vertex is
\* made white, the source gray and queued.
breadth_first_search(g, s) ==
    BFSLoop(g, <<s>>, [v \in 0..(g.n - 1) |-> IF v = s THEN "gray" ELSE "white"])

\* ccc::callChainExists: what it returns and what it writes to llvm::errs().
callChainExists(Calls, From, To) ==
    LET SCG == AddCalls(Calls, 1, CallGraph(<<>>, 0, 0, {})) IN
    IF From \notin DOMAIN SCG.FunctionToIdx
    THEN [ret |-> FALSE, errs |-> <<From, "is not part of the call graph">>]
    ELSE IF To \notin DOMAIN SCG.FunctionToIdx
    THEN [ret |-> FALSE, errs |-> <<To, "is not part of the call graph">>]
    ELSE [ret |-> breadth_first_search(SCG, SCG.FunctionToIdx[From])
                     [SCG.FunctionToIdx[To]] = "black",
          errs |-> <<>>]

\* main after Tool.run has collected the calls.
InitCalls ==
    /\ input \in [Calls : CallLists, From : Functions \cup {NoFunction},
                  To : Functions \cup {NoFunction}]
    /\ disk = [stdout |-> <<>>, stderr |-> <<>>]
    /\ pass = "call-chain-checker"
    /\ pc = "callChainExists"
    /\ ast = NoNode
    /\ todo = <<>>
    /\ FileToReplacements = NoEdits
    /\ CurlyBracesInsertedAtLocation = NoBraces
    /\ NFunctionsInserted = 0
    /\ Result = "running"
    /\ unreachable = FALSE

\* main calls callChainExists(Calls, From, To).
CallChainExists ==
    /\ pc = "callChainExists"
    /\ LET r == callChainExists(input.Calls, input.From, input.To) IN
          /\ Result' = r.ret
          /\ disk' = [disk EXCEPT !.stderr = r.errs]
    /\ pc' = "report"
    /\ UNCHANGED <<input, pass, ast, todo, FileToReplacements,
                   CurlyBracesInsertedAtLocation, NFunctionsInserted, unreachable>>

\* main prints the answer and returns 0.
CallChainReport ==
    /\ pc = "report"
    /\ disk' = [disk EXCEPT !.stdout =
                   <<IF Result THEN "call chain exists between"
                     ELSE "no call chain between", input.From, "->", input.To>>]
    /\ pc' = "exit"
    /\ UNCHANGED <<input, pass, ast, todo, FileToReplacements,
                   CurlyBracesInsertedAtLocation, NFunctionsInserted, Result,
                   unreachable>>

NextCalls == CallChainExists \/ CallChainReport

SpecCalls == InitCalls /\ [][NextCalls]_vars

\* The names that occur in some pair of Calls.
Occurring(Calls) ==
    {Calls[i].Caller : i \in 1..Len(Calls)} \cup {Calls[i].Callee : i \in 1..Len(Calls)}

\* The functions reachable from those in S by zero or more calls.
RECURSIVE Reachable(_, _)
Reachable(Calls, S) ==
    LET T == S \cup {Calls[i].Callee : i \in {j \in 1..Len(Calls) : Calls[j].Caller \in S}}
    IN IF T = S THEN S ELSE Reachable(Calls, T)

\* callChainExists has returned.
Returned == pc \in {"report", "exit"}

\* C30: the call-chain check.  callChainExists returns true exactly when
\* From and To both occur in some pair and To is reachable from From by
\* zero or more caller-to-callee edges; when From or To occurs in no pair it
\* returns false and has printed a diagnostic that names the missing one.
C30_CallChain ==
    Returned =>
        LET occ == Occurring(input.Calls) IN
        /\ Result = (/\ input.From \in occ /\ input.To \in occ
                     /\ input.To \in Reachable(input.Calls, {input.From}))
        /\ (input.From \notin occ \/ input.To \notin occ) =>
              /\ Result = FALSE
              /\ Len(disk.stderr) = 2
              /\ disk.stderr[1] \in {input.From, input.To} \ occ
        /\ (input.From \in occ /\ input.To \in occ) => disk.stderr = <<>>

\* A chain of two calls, f to g and g to h, has been found and reported.
C30_Witness ==
    /\ pc = "exit" /\ Result = TRUE
    /\ input.Calls = <<CallPair("f", "g"), CallPair("g", "h")>>
    /\ input.From = "f" /\ input.To = "h"
    /\ disk.stdout[1] = "call chain exists between"

=============================================================================
